---- MODULE Spec2Model ----
(***************************************************************************)
(* Model of the IPv4 FIB coordinator of the dataplane (src/src/route.c):   *)
(* the next-hop pool (nh_tbl, nexthop_hash), the per-table LPM rule lists, *)
(* the neighbour links and the control-thread operations on them.          *)
(*                                                                         *)
(* Addresses are AddrBits wide instead of 32; a host route has depth       *)
(* AddrBits.  The LPM, the FAL plugin, the neighbour table and nh.h are    *)
(* not part of the sources at hand and are modelled from the design text.  *)
(***************************************************************************)
EXTENDS Integers, Sequences, FiniteSets, TLC

\* ------------------------------------------------------------------ bounds
AddrBits == 3                 \* width of an address; 32 in the program
NEXTHOP_HASH_TBL_SIZE == 5    \* slots of nh_tbl.entry; 2^20 in the program
PtrsPerSlot == 3              \* addresses the allocator has for the groups of one slot
MaxRef == 3                   \* cap on a group's refcount (uint32 in the program)
MaxProto == 1                 \* protocols 0 .. MaxProto are used; uint8 in the program
MaxStat == 6                  \* cap on a counter of route_sw_stats (uint32 in the program)
MaxUnder == 1                 \* cap on how far a bucket of route_hw_stats goes below the rules recorded in its state
MaxOver == 1                  \* cap on how far a bucket of route_hw_stats goes above them
MaxFail == 1                  \* cap on the counters of the failures
MaxVrfRef == 2                \* cap on the references the routes hold on the VRF
MaxHash == 1                  \* flow hashes 0 .. MaxHash (uint32 in the program)
MaxEcmpPath == 2              \* ecmp_max_path is 0 .. MaxEcmpPath
DP_EVENT_MAX_OPS == 3         \* slots of dp_ops
MaxIfStat == 2                \* cap on the sum of the receive counters
MaxPair == 2                  \* cap on the commands in flight to the master thread
MaxSendFail == 1              \* cap on the sends to the master thread that fail
MaxMissed == 3                \* cap on a counter of the missed netlink messages
MaxPending == 1                \* groups that wait for a read-side section to end
MaxSessions == 2               \* sessions that exist at one time
MaxLcore == 1                  \* cores 0 .. MaxLcore run the npf code
MaxNpfCt == 2                  \* cap on the sizes of the session counters of a core, summed (uint32 each in the program)
MaxWalk == 3                   \* re-entries of the Ethernet lookup node that a walk is followed for
MaxGen == 0                    \* times an address is resolved anew while its old entry is linked

\* --------------------------------------------------------------- constants
NULL == 0
ENOENT == 2
ENOMEM == 12
EEXIST == 17
ENOSPC == 28
EOPNOTSUPP == 95

RT_TABLE_MAIN == 254
RTPROT_UNSPEC == 0
RT_SCOPE_UNIVERSE == 0
RT_SCOPE_LINK == 253
RT_SCOPE_HOST == 254
LPM_SCOPE_PAN_DIMENSIONAL == -1

\* lpm_add / lpm_delete outcomes (lpm/lpm.h)
LPM_SUCCESS == 0
LPM_HIGHER_SCOPE_EXISTS == 1
LPM_LOWER_SCOPE_EXISTS == 2
LPM_ALREADY_EXISTS == 3

\* enum pd_obj_state; a calloc'ed object starts as the first value
PD_OBJ_STATE_FULL == "FULL"
PD_OBJ_STATE_NO_RESOURCE == "NO_RESOURCE"
PD_OBJ_STATE_NOT_NEEDED == "NOT_NEEDED"
PD_OBJ_STATE_ERROR == "ERROR"
PdStates == {PD_OBJ_STATE_FULL, PD_OBJ_STATE_NO_RESOURCE,
             PD_OBJ_STATE_NOT_NEEDED, PD_OBJ_STATE_ERROR}

\* next_hop flags
RTF_SLOWPATH == "SLOWPATH"
RTF_GATEWAY == "GATEWAY"
RTF_REJECT == "REJECT"
RTF_BLACKHOLE == "BLACKHOLE"
RTF_LOCAL == "LOCAL"
RTF_BROADCAST == "BROADCAST"
RTF_NOROUTE == "NOROUTE"
RTF_DEAD == "DEAD"
RTF_NEIGH_PRESENT == "NEIGH_PRESENT"
RTF_NEIGH_CREATED == "NEIGH_CREATED"

\* Flags that take part in the identity of a next hop: every flag but the
\* run-time ones (neighbour links and liveness).
NH_FLAGS_CMP_MASK ==
    {RTF_SLOWPATH, RTF_GATEWAY, RTF_REJECT, RTF_BLACKHOLE, RTF_LOCAL,
     RTF_BROADCAST, RTF_NOROUTE}

\* ------------------------------------------------------------------- state
VARIABLES
    nh_entry,       \* nh_tbl.entry: slot -> pointer to a next_hop_u, or NULL
    nh_in_use,      \* nh_tbl.in_use
    nh_rover,       \* nh_tbl.rover
    nexthop_hash,   \* the cds_lfht: set of nodes [hv, ptr]
    heap,           \* allocated next_hop_u objects: pointer -> object
    rt_table,       \* vrf->v_rt4_head.rt_table: table id -> set of LPM rules
    lltable,        \* ifp->if_lltable of every interface: set of llentry
    hw_nh,          \* next-hop group handles that exist in the FAL plugin
    hw_rt,          \* the routes that exist in the FAL plugin
    rcu_pending,    \* groups handed to call_rcu that a reader still holds up
    held,           \* references held by a direct client of the pool
    route_sw_stats, \* route_sw_stats: pd_obj_state -> uint32
    route_hw_stats, \* route_hw_stats: pd_obj_state -> uint32
    vrf_ref,        \* references the routes hold on the default VRF
    dp_ops,         \* dp_ops: slot -> the ops registered there, or NULL
    speed_cfg_list, \* commands.c speed_cfg_list
    vhost_cfg_list, \* vhost.c vhost_cfg_list
    poe_cfg_list,   \* commands.c poe_cfg_list
    breakout_cfg_list, \* commands.c breakout_cfg_list
    ifnet,          \* names of the interfaces that have their index
    if_cfg,         \* what the commands have set on every interface
    missed_cache,   \* netlink adds kept for interfaces that are hidden
    missed_stats,   \* the counters of the incomplete state
    con_rcu,        \* the console thread's reader state
    cmd_pair,       \* commands sent to the master thread, not yet received
    dp_config,      \* what the controller has configured since the last reset
    reset_answered, \* history: a reset was answered, nothing configured since
    pl_if_flags,    \* IFF_UP of the interfaces the packets arrive on
    pl_if_data,     \* their receive counters
    rd_active,      \* a forwarding thread is inside a read-side section
    rd_ptr,         \* the group pointer it has loaded there, or NULL
    vhost_ev_list,  \* vhost_ev_list: the names of the queued vhost events
    vhost_ev_fd,    \* the event fd of the master thread is readable
    vh_handler,     \* vhost_event_handler: where it is, and the event it took
    vh_prod,        \* the callers of vhost_set_update_event: where each is
    vh_owed,        \* the names whose link update was asked for and not done since
    npf_sess,       \* the npf_state_t of the sessions: protocol and nst_state
    npf_stats,      \* stats: per core, ss_tcp_ct[state] and ss_ct[proto][state]
    npf_state_icmp_strict,
    trace,          \* the last operation, its arguments of note and its result
    aborted         \* the process died (failed assertion, NULL dereference)

route_vars == <<nh_entry, nh_in_use, nh_rover, nexthop_hash, heap, rt_table,
                lltable, hw_nh, hw_rt, rcu_pending, held, route_sw_stats,
                route_hw_stats, vrf_ref>>
cfg_vars == <<dp_ops, speed_cfg_list, vhost_cfg_list, poe_cfg_list,
              breakout_cfg_list, ifnet, if_cfg>>
nl_vars == <<missed_cache, missed_stats>>
con_vars == <<con_rcu, cmd_pair, dp_config, reset_answered>>
pl_vars == <<pl_if_flags, pl_if_data>>
rd_vars == <<rd_active, rd_ptr>>
vh_vars == <<vhost_ev_list, vhost_ev_fd, vh_handler, vh_prod, vh_owed>>
npf_vars == <<npf_sess, npf_stats, npf_state_icmp_strict>>
more_vars == <<rd_vars, vh_vars, npf_vars>>
vars == <<route_vars, cfg_vars, nl_vars, con_vars, pl_vars, more_vars, trace,
         aborted>>

\* An interface nothing has been set on.
if_cfg_zero ==
    [link_speeds |-> {}, transport_links |-> {}, poe |-> <<>>,
     breakout |-> 0]

Slots == 0 .. (NEXTHOP_HASH_TBL_SIZE - 1)
Ptrs == 1 .. (PtrsPerSlot * NEXTHOP_HASH_TBL_SIZE)
Arena(idx) == (PtrsPerSlot * idx + 1) .. (PtrsPerSlot * idx + PtrsPerSlot)

\* The control thread's view of the tables, threaded through the code of
\* one handler.  nomem / lpm_full / fal_rc are what the environment answers
\* to the handler's allocations and FAL calls; rcu collects the objects
\* handed to call_rcu, which are freed once the handler has returned.
St ==
    [entry |-> nh_entry, in_use |-> nh_in_use, rover |-> nh_rover,
     hash |-> nexthop_hash, heap |-> heap, lpm |-> rt_table,
     lltable |-> lltable, hw_nh |-> hw_nh, hw_rt |-> hw_rt, fal_bad |-> {},
     rd_active |-> rd_active, pending |-> rcu_pending,
     rcu |-> {}, swaps |-> {},
     sw_stats |-> route_sw_stats, hw_stats |-> route_hw_stats,
     vrf_ref |-> vrf_ref,
     nomem |-> FALSE, lpm_full |-> FALSE, fal_rc |-> 0, garbage |-> NULL,
     mutex_rel |-> 0, aborted |-> FALSE]

\* route_sw_stats[state]++ and --.  The counters are uint32: a count c of
\* 2^31 or more is held as c - 2^32, so that 0 - 1 is -1 here and 2^32 - 1
\* in the program, and sums agree modulo 2^32.
route_sw_stats_inc(st, state) == [st EXCEPT !.sw_stats[state] = @ + 1]
route_sw_stats_dec(st, state) == [st EXCEPT !.sw_stats[state] = @ - 1]

\* route_hw_stats[state]++ and --, held the same way.
route_hw_stats_inc(st, state) == [st EXCEPT !.hw_stats[state] = @ + 1]
route_hw_stats_dec(st, state) == [st EXCEPT !.hw_stats[state] = @ - 1]

\* vrf_find_or_create and vrf_delete_by_ptr, for the default VRF: a
\* reference more, a reference less.
vrf_find_or_create(st) == [st EXCEPT !.vrf_ref = @ + 1]
vrf_delete_by_ptr(st) == [st EXCEPT !.vrf_ref = @ - 1]

\* assert(cond): the process aborts when cond is false.
c_assert(st, cond) ==
    IF cond THEN st ELSE [st EXCEPT !.aborted = TRUE]

\* ------------------------------------------------------- next_hop helpers
NoLle == <<>>

\* struct next_hop.  u is the union {ifp, lle}: lle is read when the hop is
\* NEIGH_PRESENT or NEIGH_CREATED, ifp otherwise.
next_hop(ifp, gw, flags) ==
    [gateway |-> gw, flags |-> flags, ifp |-> ifp, lle |-> NoLle,
     outlabels |-> <<>>]

nh4_is_neigh_present(nh) == RTF_NEIGH_PRESENT \in nh.flags
nh4_is_neigh_created(nh) == RTF_NEIGH_CREATED \in nh.flags

\* lle->ifp; an llentry that has been freed reads as whatever is there now.
lle_ifp(st, lle) ==
    IF lle = NoLle THEN NULL
    ELSE IF lle \in st.lltable THEN lle[1] ELSE st.garbage

nh4_get_ifp(st, nh) ==
    IF nh4_is_neigh_present(nh) \/ nh4_is_neigh_created(nh)
    THEN lle_ifp(st, nh.lle)
    ELSE nh.ifp

nh_is_connected(nh) ==
    nh.flags \cap {RTF_BLACKHOLE, RTF_REJECT, RTF_SLOWPATH, RTF_GATEWAY,
                   RTF_LOCAL, RTF_NOROUTE} = {}

nh_is_local(nh) == RTF_LOCAL \in nh.flags
nh_is_gw(nh) == RTF_GATEWAY \in nh.flags

nh4_set_neigh_present(st, nh, lle) ==
    [st |-> c_assert(st, ~nh4_is_neigh_present(nh)),
     nh |-> [nh EXCEPT !.flags = @ \cup {RTF_NEIGH_PRESENT}, !.lle = lle]]

nh4_clear_neigh_present(st, nh) ==
    [st |-> c_assert(st, nh4_is_neigh_present(nh)),
     nh |-> [nh EXCEPT !.flags = @ \ {RTF_NEIGH_PRESENT},
                       !.ifp = lle_ifp(st, nh.lle), !.lle = NoLle]]

nh4_set_neigh_created(st, nh, lle) ==
    [st |-> c_assert(st, ~nh4_is_neigh_created(nh)),
     nh |-> [nh EXCEPT !.flags = @ \cup {RTF_NEIGH_CREATED}, !.lle = lle]]

nh4_clear_neigh_created(st, nh) ==
    [st |-> c_assert(st, nh4_is_neigh_created(nh)),
     nh |-> [nh EXCEPT !.flags = @ \ {RTF_NEIGH_CREATED},
                       !.ifp = lle_ifp(st, nh.lle), !.lle = NoLle]]

\* ifp ? ifp->if_index : 0 ; an interface is named by its index here.
if_index(ifp) == ifp

\* ------------------------------------------------------------ the nh hash
\* rte_jhash_32b over (gateway, ifindex, flags & CMP_MASK) of every hop; the
\* words hashed stand for the hash value.
nexthop_hashfn(st, nh) ==
    [i \in 1 .. Len(nh) |->
        <<nh[i].gateway, if_index(nh4_get_ifp(st, nh[i])),
          nh[i].flags \cap NH_FLAGS_CMP_MASK>>]

nh_outlabels_cmpfn(a, b) == a = b

nexthop_cmpfn(st, nu, key) ==
    /\ key.size = Len(nu.siblings)
    /\ \A i \in 1 .. key.size :
        /\ nu.proto = key.proto
        /\ nh4_get_ifp(st, nu.siblings[i]) = nh4_get_ifp(st, key.nh[i])
        /\ (nu.siblings[i].flags \cap NH_FLAGS_CMP_MASK)
            = (key.nh[i].flags \cap NH_FLAGS_CMP_MASK)
        /\ nu.siblings[i].gateway = key.nh[i].gateway
        /\ nh_outlabels_cmpfn(nu.siblings[i].outlabels, key.nh[i].outlabels)

\* Bind(x, F) is F(x): the value x is given a name in what follows.
Bind(x, F(_)) == F(x)

Min(S) == CHOOSE x \in S : \A y \in S : x <= y
Max(S) == CHOOSE x \in S : \A y \in S : x >= y

\* cds_lfht_lookup: the nodes filed under the key's hash that match it.
nexthop_lookup(st, key) ==
    LET hv == nexthop_hashfn(st, key.nh)
        hit == {n.ptr : n \in {m \in st.hash :
                    m.hv = hv /\ nexthop_cmpfn(st, st.heap[m.ptr], key)}}
    IN  IF hit = {} THEN NULL ELSE Min(hit)

\* cds_lfht_add_unique; returns EEXIST when a matching node is there.
nexthop_hash_insert(st, p, key) ==
    IF nexthop_lookup(st, key) # NULL
    THEN [st |-> st, rc |-> EEXIST]
    ELSE [st |-> [st EXCEPT !.hash = @ \cup
                    {[hv |-> nexthop_hashfn(st, key.nh), ptr |-> p]}],
          rc |-> 0]

\* calloc of a next_hop_u: an address not in use, or NULL.  The allocator
\* takes the lowest free address of the arena kept for the slot.
nexthop_alloc(st, idx) ==
    IF st.nomem \/ Arena(idx) \ DOMAIN st.heap = {}
    THEN NULL
    ELSE Min(Arena(idx) \ DOMAIN st.heap)

HeapPut(h, p, obj) ==
    [q \in DOMAIN h \cup {p} |-> IF q = p THEN obj ELSE h[q]]

\* ------------------------------------------------------------------- FAL
fal_state_to_pd_state(rc) ==
    IF rc = 0 THEN PD_OBJ_STATE_FULL
    ELSE IF rc = -EOPNOTSUPP THEN PD_OBJ_STATE_NOT_NEEDED
    ELSE IF rc = -ENOSPC THEN PD_OBJ_STATE_NO_RESOURCE
    ELSE PD_OBJ_STATE_ERROR

\* fal_ip4_new_route / fal_ip4_upd_route / fal_ip4_del_route: what the
\* plugin answers.
fal_ip4_route(st) == st.fal_rc

\* fal_ip4_new_route, fal_ip4_upd_route and fal_ip4_del_route: the plugin
\* answers fal_rc and on success holds the route or holds it no more.
\* fal_bad keeps the calls that do not fit what the plugin holds.
fal_ip4_new_route(st, tbl, ip, depth) ==
    [st EXCEPT
        !.fal_bad = IF <<tbl, ip, depth>> \in st.hw_rt
                    THEN @ \cup {"new of a route the hardware holds"} ELSE @,
        !.hw_rt = IF st.fal_rc = 0 THEN @ \cup {<<tbl, ip, depth>>} ELSE @]

fal_ip4_upd_route(st, tbl, ip, depth) ==
    [st EXCEPT
        !.fal_bad = IF <<tbl, ip, depth>> \notin st.hw_rt
                    THEN @ \cup {"upd of a route the hardware does not hold"}
                    ELSE @]

fal_ip4_del_route(st, tbl, ip, depth) ==
    [st EXCEPT
        !.fal_bad = IF <<tbl, ip, depth>> \notin st.hw_rt
                    THEN @ \cup {"del of a route the hardware does not hold"}
                    ELSE @,
        !.hw_rt = IF st.fal_rc = 0 THEN @ \ {<<tbl, ip, depth>>} ELSE @]

\* fal_ip4_new_next_hops: the plugin answers fal_rc; on success it hands out
\* a group handle that no existing group has, or has no resource left.
fal_ip4_new_next_hops(st, idx) ==
    IF st.fal_rc # 0
    THEN [st |-> st, ret |-> st.fal_rc, obj |-> 0]
    ELSE IF Arena(idx) \ st.hw_nh = {}
    THEN [st |-> st, ret |-> -ENOSPC, obj |-> 0]
    ELSE LET h == Min(Arena(idx) \ st.hw_nh)
         IN  [st |-> [st EXCEPT !.hw_nh = @ \cup {h}], ret |-> 0, obj |-> h]

\* fal_ip4_del_next_hops
fal_ip4_del_next_hops(st, obj) ==
    IF st.fal_rc = 0 THEN [st EXCEPT !.hw_nh = @ \ {obj}] ELSE st

\* ------------------------------------------------------------ the nh pool
\* The search that takes the next slot, free or not.
rover_scan_next(entry, rover, nh_iter) ==
    IF nh_iter + 1 >= NEXTHOP_HASH_TBL_SIZE THEN 0 ELSE nh_iter + 1

\* The search for the next free slot at the end of nexthop_new.
RECURSIVE rover_scan(_, _, _)
rover_scan(entry, rover, nh_iter) ==
    LET n == IF nh_iter + 1 >= NEXTHOP_HASH_TBL_SIZE THEN 0 ELSE nh_iter + 1
    IN  IF entry[n] # NULL /\ n # rover
        THEN rover_scan(entry, rover, n)
        ELSE n

nexthop_reuse(st, key) ==
    Bind(nexthop_lookup(st, key), LAMBDA nu :
        IF nu = NULL THEN [st |-> st, nu |-> NULL, slot |-> 0]
        ELSE [st |-> [st EXCEPT !.heap[nu].refcount = @ + 1],
              nu |-> nu, slot |-> st.heap[nu].index])

\* The slot nexthop_new stores a new group in.
nexthop_new_slot(st) == st.rover

\* The group nexthop_new builds; fal is what the plugin said to it.
nexthop_new_nextu(nh, proto, rover, fal) ==
    [siblings |-> nh, proto |-> proto, index |-> rover, refcount |-> 1,
     pd_state |-> IF fal.ret < 0 THEN fal_state_to_pd_state(fal.ret)
                  ELSE PD_OBJ_STATE_FULL,
     nhg_fal_obj |-> fal.obj,
     nh_fal_obj |-> [i \in 1 .. Len(nh) |-> fal.obj]]

\* nexthop_new: look the hops up, or create a group for them.
nexthop_new(st, nh, proto) ==
    Bind([nh |-> nh, size |-> Len(nh), proto |-> proto], LAMBDA key :
    Bind(nexthop_reuse(st, key), LAMBDA reuse :
        IF reuse.nu # NULL
        THEN [st |-> reuse.st, rc |-> 0, slot |-> reuse.slot]
        ELSE IF st.in_use = NEXTHOP_HASH_TBL_SIZE
        THEN [st |-> st, rc |-> -ENOSPC, slot |-> 0]
        ELSE
        Bind(nexthop_new_slot(st), LAMBDA rover :
        Bind(nexthop_alloc(st, rover), LAMBDA p :
            IF p = NULL
            THEN [st |-> st, rc |-> -ENOMEM, slot |-> 0]
            ELSE
            Bind(nexthop_hash_insert(st, p, key), LAMBDA ins :
                IF ins.rc # 0
                THEN [st |-> st, rc |-> -ENOMEM, slot |-> 0]
                ELSE
                Bind(fal_ip4_new_next_hops(ins.st, rover), LAMBDA fal :
                    [st |-> [fal.st EXCEPT
                                !.heap = HeapPut(@, p,
                                    nexthop_new_nextu(nh, proto, rover, fal)),
                                !.rover = rover_scan(st.entry, rover, rover),
                                !.in_use = @ + 1,
                                !.entry[rover] = p],
                     rc |-> 0, slot |-> rover]))))))

\* route_nexthop_new adds the statistics of the failures to nexthop_new.
route_nexthop_new(st, nh, proto) ==
    Bind(nexthop_new(st, nh, proto), LAMBDA new :
        IF new.rc >= 0 THEN new
        ELSE [new EXCEPT !.st = route_sw_stats_inc(@,
                IF new.rc = -ENOSPC THEN PD_OBJ_STATE_NO_RESOURCE
                ELSE PD_OBJ_STATE_ERROR)])

\* nexthop_put that destroys the group at once where the code calls call_rcu.
nexthop_put_last_free(st, idx, p) ==
    Bind([st EXCEPT !.heap[p].refcount = 0, !.entry[idx] = NULL,
                    !.in_use = @ - 1], LAMBDA st1 :
    Bind(IF st.heap[p].pd_state = PD_OBJ_STATE_FULL
         THEN fal_ip4_del_next_hops(st1, st.heap[p].nhg_fal_obj)
         ELSE st1, LAMBDA st2 :
        [st2 EXCEPT !.hash = {n \in @ : n.ptr # p},
                    !.heap = [q \in DOMAIN @ \ {p} |-> @[q]]]))

\* The last reference is gone: the group leaves the slot, the hardware, the
\* hash, and is handed to call_rcu.
nexthop_put_last(st, idx, p) ==
    Bind([st EXCEPT !.heap[p].refcount = 0, !.entry[idx] = NULL,
                    !.in_use = @ - 1], LAMBDA st1 :
    Bind(IF st.heap[p].pd_state = PD_OBJ_STATE_FULL
         THEN fal_ip4_del_next_hops(st1, st.heap[p].nhg_fal_obj)
         ELSE st1, LAMBDA st2 :
        [st2 EXCEPT !.hash = {n \in @ : n.ptr # p}, !.rcu = @ \cup {p}]))

\* nexthop_put: drop a reference; the last one frees the slot.
nexthop_put(st, idx) ==
    IF st.entry[idx] = NULL
    THEN [st EXCEPT !.aborted = TRUE]
    ELSE IF st.heap[st.entry[idx]].refcount - 1 # 0
    THEN [st EXCEPT !.heap[st.entry[idx]].refcount = @ - 1]
    ELSE nexthop_put_last(st, idx, st.entry[idx])

\* call_rcu callbacks run once the handler is done and every read-side
\* section that was open has ended: with no reader inside a section the
\* objects are freed, otherwise they wait for the reader.
rcu_barrier(st) ==
    IF st.rd_active
    THEN [st EXCEPT !.pending = @ \cup st.rcu, !.rcu = {}]
    ELSE [st EXCEPT !.heap = [q \in DOMAIN st.heap \ st.rcu |-> st.heap[q]],
                    !.rcu = {}]

\* --------------------------------------------------- replace-in-place
NH_NO_CHANGE == "NH_NO_CHANGE"
NH_SET_NEIGH_CREATED == "NH_SET_NEIGH_CREATED"
NH_CLEAR_NEIGH_CREATED == "NH_CLEAR_NEIGH_CREATED"
NH_SET_NEIGH_PRESENT == "NH_SET_NEIGH_PRESENT"
NH_CLEAR_NEIGH_PRESENT == "NH_CLEAR_NEIGH_PRESENT"
NH_DELETE == "NH_DELETE"

ll_ipv4_addr(lle) == lle[2]

routing_arp_add_gw_nh_replace_cb(st, next, lle) ==
    IF ~nh_is_gw(next) \/ next.gateway # ll_ipv4_addr(lle)
    THEN NH_NO_CHANGE
    ELSE IF nh4_get_ifp(st, next) # lle_ifp(st, lle)
    THEN NH_NO_CHANGE
    ELSE IF nh_is_local(next) \/ nh4_is_neigh_present(next)
            \/ nh4_is_neigh_created(next)
    THEN NH_NO_CHANGE
    ELSE NH_SET_NEIGH_PRESENT

routing_arp_del_gw_nh_replace_cb(st, next, lle) ==
    IF ~nh_is_gw(next) \/ next.gateway # ll_ipv4_addr(lle)
    THEN NH_NO_CHANGE
    ELSE IF nh4_get_ifp(st, next) # lle_ifp(st, lle)
    THEN NH_NO_CHANGE
    ELSE IF nh_is_local(next) \/ ~nh4_is_neigh_present(next)
    THEN NH_NO_CHANGE
    ELSE NH_CLEAR_NEIGH_PRESENT

\* args = [ifp, count]
routing_arp_add_nh_replace_cb(st, next, args) ==
    IF ~nh_is_connected(next) THEN NH_NO_CHANGE
    ELSE IF nh4_is_neigh_present(next) \/ nh4_is_neigh_created(next)
    THEN NH_NO_CHANGE
    ELSE IF args.ifp # nh4_get_ifp(st, next) THEN NH_NO_CHANGE
    ELSE IF args.count # 0 THEN NH_SET_NEIGH_CREATED
    ELSE NH_SET_NEIGH_PRESENT

routing_arp_del_nh_replace_cb(st, next, ifp) ==
    IF ~nh_is_connected(next) \/ ~nh4_is_neigh_present(next)
    THEN NH_NO_CHANGE
    ELSE IF ifp # nh4_get_ifp(st, next) THEN NH_NO_CHANGE
    ELSE NH_CLEAR_NEIGH_PRESENT

\* args = [count, sibling]
arp_removal_nh_purge_cb(sibling, args) ==
    IF sibling = args.sibling
    THEN IF args.count > 1 THEN NH_CLEAR_NEIGH_CREATED ELSE NH_DELETE
    ELSE IF args.count > 1 THEN NH_NO_CHANGE ELSE NH_DELETE

\* The callback handed to route_nh_replace, by name.
nh_processing_cb(cb, st, next, sibling, arg) ==
    CASE cb = "routing_arp_add_gw_nh_replace_cb" ->
            routing_arp_add_gw_nh_replace_cb(st, next, arg)
      [] cb = "routing_arp_del_gw_nh_replace_cb" ->
            routing_arp_del_gw_nh_replace_cb(st, next, arg)
      [] cb = "routing_arp_add_nh_replace_cb" ->
            routing_arp_add_nh_replace_cb(st, next, arg)
      [] cb = "routing_arp_del_nh_replace_cb" ->
            routing_arp_del_nh_replace_cb(st, next, arg)
      [] cb = "arp_removal_nh_purge_cb" ->
            arp_removal_nh_purge_cb(sibling, arg)

\* The switch of route_nh_replace on one copied hop.
nh_apply_change(st, new_next, nh_change, lle) ==
    CASE nh_change = NH_SET_NEIGH_CREATED ->
            nh4_set_neigh_created(st, new_next, lle)
      [] nh_change = NH_CLEAR_NEIGH_CREATED ->
            nh4_clear_neigh_created(st, new_next)
      [] nh_change = NH_SET_NEIGH_PRESENT ->
            nh4_set_neigh_present(st, new_next, lle)
      [] nh_change = NH_CLEAR_NEIGH_PRESENT ->
            nh4_clear_neigh_present(st, new_next)
      [] OTHER -> [st |-> st, nh |-> new_next]

\* nexthop_hash_del_add: unhook the old group, file the new one.
nexthop_hash_del_add(st, old_nu, new_nu, new_obj) ==
    IF \A n \in st.hash : n.ptr # old_nu
    THEN [st |-> [st EXCEPT !.aborted = TRUE], rc |-> -ENOENT]
    ELSE nexthop_hash_insert(
            [st EXCEPT !.hash = {n \in @ : n.ptr # old_nu}], new_nu,
            [nh |-> new_obj.siblings, size |-> Len(new_obj.siblings),
             proto |-> new_obj.proto])

\* A replacement that starts like a new group, with one reference.
nh_replace_fresh(nextu, new_array) ==
    [siblings |-> new_array, proto |-> nextu.proto, index |-> nextu.index,
     refcount |-> 1, pd_state |-> PD_OBJ_STATE_FULL,
     nhg_fal_obj |-> nextu.nhg_fal_obj, nh_fal_obj |-> nextu.nh_fal_obj]

\* What route_nh_replace copies from the group it replaces.
nh_replace_copy(nextu, new_array) ==
    [siblings |-> new_array, proto |-> nextu.proto, index |-> nextu.index,
     refcount |-> nextu.refcount, pd_state |-> PD_OBJ_STATE_FULL,
     nhg_fal_obj |-> nextu.nhg_fal_obj, nh_fal_obj |-> nextu.nh_fal_obj]

\* The tail of route_nh_replace: the copy takes the place of the group.
route_nh_replace_swap(st, p, q, nh_idx, nextu, new_nextu) ==
    Bind(nexthop_hash_del_add(st, p, q, new_nextu), LAMBDA da :
        IF da.rc # 0
        THEN [st |-> da.st, ret |-> 0, new_idx |-> 0]
        ELSE [st |-> [c_assert(da.st, da.st.entry[nh_idx] = p) EXCEPT
                        !.heap = HeapPut(@, q, new_nextu),
                        !.entry[nh_idx] = q,
                        !.rcu = @ \cup {p},
                        !.swaps = @ \cup
                            {[old |-> nextu, new |-> new_nextu,
                              hw_old |-> st.hw_nh, hw_new |-> da.st.hw_nh]}],
              ret |-> 0, new_idx |-> 0])

\* route_nh_replace(nextu, nh_idx, lle, new_nextu_idx_for_del, cb, arg).
\* del_ok says whether new_nextu_idx_for_del was given.  Siblings are
\* numbered from 1 here.
route_nh_replace(st, p, nh_idx, lle, del_ok, cb, arg) ==
    Bind(st.heap[p], LAMBDA nextu :
    Bind(Len(nextu.siblings), LAMBDA n :
    Bind([i \in 1 .. n |->
            nh_processing_cb(cb, st, nextu.siblings[i], i, arg)],
         LAMBDA chg :
    Bind({i \in 1 .. n : chg[i] = NH_DELETE}, LAMBDA dels :
    Bind([i \in 1 .. n |->
            nh_apply_change(st, nextu.siblings[i], chg[i], lle)],
         LAMBDA app :
    Bind(c_assert(st, \A i \in 1 .. (IF dels # {} /\ ~del_ok
                                     THEN Min(dels) - 1 ELSE n) :
                        ~app[i].st.aborted), LAMBDA st0 :
    Bind(nexthop_alloc(st, nh_idx), LAMBDA q :
        IF q = NULL
        THEN [st |-> st, ret |-> 0, new_idx |-> 0]
        ELSE IF dels # {} /\ ~del_ok
        THEN [st |-> st0, ret |-> -1, new_idx |-> 0]
        ELSE IF \A i \in 1 .. n : chg[i] = NH_NO_CHANGE
        THEN [st |-> st0, ret |-> 0, new_idx |-> 0]
        ELSE IF dels # {} /\ Cardinality(dels) # n
        THEN Bind(route_nexthop_new(st0, nextu.siblings, nextu.proto),
                  LAMBDA r :
                    [st |-> r.st,
                     ret |-> IF r.rc < 0 THEN n ELSE Cardinality(dels),
                     new_idx |-> r.slot])
        ELSE IF dels # {}
        THEN [st |-> st0, ret |-> Cardinality(dels), new_idx |-> 0]
        ELSE route_nh_replace_swap(st0, p, q, nh_idx, nextu,
                nh_replace_copy(nextu, [i \in 1 .. n |-> app[i].nh]))
    )))))))

\* ------------------------------------------------------------------ LPM
\* A rule is [ip, depth, scope, next_hop, state, created]; at one prefix the
\* rule of the highest scope is the active one, the others are shadowed.
RECURSIVE Pow2(_)
Pow2(n) == IF n = 0 THEN 1 ELSE 2 * Pow2(n - 1)

depth_to_mask(ip, depth) ==
    (ip \div Pow2(AddrBits - depth)) * Pow2(AddrBits - depth)

lpm_rules_at(L, ip, depth) == {r \in L : r.ip = ip /\ r.depth = depth}

lpm_active(L, ip, depth) ==
    CHOOSE r \in lpm_rules_at(L, ip, depth) :
        \A o \in lpm_rules_at(L, ip, depth) : o.scope <= r.scope

lpm_is_active(L, r) == \A o \in lpm_rules_at(L, r.ip, r.depth) : o.scope <= r.scope

lpm_rule_count(L) == Cardinality(L)

\* lpm_add; old_scope names the rule that was active before, if any.
lpm_add(st, tbl, ip0, depth, nh_idx, scope) ==
    LET L == st.lpm[tbl]
        ip == depth_to_mask(ip0, depth)
        at == lpm_rules_at(L, ip, depth)
        rule == [ip |-> ip, depth |-> depth, scope |-> scope,
                 next_hop |-> nh_idx, state |-> PD_OBJ_STATE_FULL,
                 created |-> FALSE]
    IN  IF \E r \in at : r.scope = scope
        THEN [st |-> st, rc |-> LPM_ALREADY_EXISTS, old_scope |-> 0]
        ELSE IF st.lpm_full
        THEN [st |-> st, rc |-> -ENOSPC, old_scope |-> 0]
        ELSE [st |-> [st EXCEPT !.lpm[tbl] = @ \cup {rule}],
              rc |-> IF at = {} THEN LPM_SUCCESS
                     ELSE IF \E r \in at : r.scope > scope
                     THEN LPM_HIGHER_SCOPE_EXISTS
                     ELSE LPM_LOWER_SCOPE_EXISTS,
              old_scope |-> IF at = {} THEN 0
                            ELSE lpm_active(L, ip, depth).scope]

\* lpm_delete; rule is the rule removed, new_scope names the promoted one.
lpm_delete(st, tbl, ip0, depth, scope) ==
    LET L == st.lpm[tbl]
        ip == depth_to_mask(ip0, depth)
        at == lpm_rules_at(L, ip, depth)
        hit == {r \in at : r.scope = scope}
    IN  IF hit = {}
        THEN [st |-> st, rc |-> -ENOENT, rule |-> <<>>, new_scope |-> 0]
        ELSE
        LET rule == CHOOSE r \in hit : TRUE
            rest == at \ {rule}
        IN  [st |-> [st EXCEPT !.lpm[tbl] = @ \ {rule}],
             rc |-> IF rest = {} THEN LPM_SUCCESS
                    ELSE IF \E r \in rest : r.scope > scope
                    THEN LPM_HIGHER_SCOPE_EXISTS
                    ELSE LPM_LOWER_SCOPE_EXISTS,
             rule |-> rule,
             new_scope |-> IF rest = {} THEN 0
                           ELSE lpm_active(L \ {rule}, ip, depth).scope]

\* Writes through the pd_state pointers lpm_add / lpm_delete hand back.
lpm_set_pd_state(st, tbl, ip, depth, scope, state, created) ==
    [st EXCEPT !.lpm[tbl] =
        {IF r.ip = ip /\ r.depth = depth /\ r.scope = scope
         THEN [r EXCEPT !.state = state, !.created = created]
         ELSE r : r \in @}]

lpm_rule(L, ip, depth, scope) ==
    CHOOSE r \in L : r.ip = ip /\ r.depth = depth /\ r.scope = scope

\* lpm_lookup_exact: the active rule at the prefix, or none (<<>>).
lpm_lookup_exact(L, ip0, depth) ==
    LET ip == depth_to_mask(ip0, depth)
    IN  IF lpm_rules_at(L, ip, depth) = {} THEN <<>>
        ELSE lpm_active(L, ip, depth)

lpm_covers(r, ip, depth) ==
    r.depth <= depth /\ depth_to_mask(ip, r.depth) = r.ip

\* lpm_lookup: the active rule of the longest prefix holding the address.
lpm_lookup(L, ip) ==
    LET cand == {r \in L : lpm_covers(r, ip, AddrBits) /\ lpm_is_active(L, r)}
    IN  IF cand = {} THEN <<>>
        ELSE CHOOSE r \in cand : \A o \in cand : o.depth <= r.depth

\* lpm_find_cover: the most specific strictly shorter prefix.
lpm_find_cover(L, ip, depth) ==
    LET cand == {r \in L : r.depth < depth /\ lpm_covers(r, ip, depth)
                           /\ lpm_is_active(L, r)}
    IN  IF cand = {} THEN <<>>
        ELSE CHOOSE r \in cand : \A o \in cand : o.depth <= r.depth

\* The rules lpm_subtree_walk visits: the active rules below the prefix.
lpm_subtree(L, ip, depth) ==
    {r \in L : r.depth > depth /\ depth_to_mask(r.ip, depth) = ip
               /\ lpm_is_active(L, r)}

\* Walks visit rules by depth, then by address, then by scope.
lpm_walk_first(todo) ==
    CHOOSE r \in todo : \A o \in todo :
        \/ r.depth < o.depth
        \/ r.depth = o.depth /\ r.ip < o.ip
        \/ r.depth = o.depth /\ r.ip = o.ip /\ r.scope <= o.scope

\* ------------------------------------------------- route_lpm_add / delete
\* The platform state of a rule by the plugin's answer alone, whatever the
\* state of its group.
route_pd_state_of_answer(st, p, frc) == fal_state_to_pd_state(frc)

\* The platform state a rule gets when its group is p and the plugin
\* answers frc to the route.
route_pd_state(st, p, frc) ==
    IF st.heap[p].pd_state = PD_OBJ_STATE_FULL
    THEN fal_state_to_pd_state(frc)
    ELSE st.heap[p].pd_state

\* route_lpm_add after lpm_add said LPM_LOWER_SCOPE_EXISTS: old is the rule
\* that was demoted.
route_lpm_add_demoted(st0, tbl, ip, depth, scope, p, old) ==
    Bind(IF old.created THEN fal_ip4_upd_route(st0, tbl, ip, depth)
         ELSE fal_ip4_new_route(st0, tbl, ip, depth), LAMBDA st :
    route_hw_stats_inc(
        lpm_set_pd_state(
            route_hw_stats_dec(
                lpm_set_pd_state(st, tbl, ip, depth, scope,
                                 route_pd_state(st, p, fal_ip4_route(st)),
                                 fal_ip4_route(st) = 0 \/ old.created),
                old.state),
            tbl, ip, depth, old.scope, PD_OBJ_STATE_NOT_NEEDED, old.created),
        route_pd_state(st, p, fal_ip4_route(st))))

route_lpm_add(st, tbl, ip0, depth, nh_idx, scope) ==
    Bind(depth_to_mask(ip0, depth), LAMBDA ip :
    Bind(lpm_add(st, tbl, ip, depth, nh_idx, scope), LAMBDA add :
    Bind(st.entry[nh_idx], LAMBDA p :
        IF add.rc = LPM_HIGHER_SCOPE_EXISTS
        THEN [st |-> lpm_set_pd_state(
                        route_sw_stats_inc(add.st, PD_OBJ_STATE_NOT_NEEDED),
                        tbl, ip, depth, scope, PD_OBJ_STATE_NOT_NEEDED,
                        FALSE),
              rc |-> add.rc, lpm_rc |-> add.rc]
        ELSE IF add.rc = LPM_ALREADY_EXISTS
        THEN [st |-> add.st, rc |-> 0, lpm_rc |-> add.rc]
        ELSE IF add.rc \notin {LPM_SUCCESS, LPM_LOWER_SCOPE_EXISTS}
        THEN [st |-> route_sw_stats_inc(add.st,
                        IF add.rc = -ENOSPC THEN PD_OBJ_STATE_NO_RESOURCE
                        ELSE PD_OBJ_STATE_ERROR),
              rc |-> add.rc, lpm_rc |-> add.rc]
        ELSE IF p = NULL
        THEN [st |-> [add.st EXCEPT !.aborted = TRUE], rc |-> 0,
              lpm_rc |-> add.rc]
        ELSE IF add.rc = LPM_LOWER_SCOPE_EXISTS
        THEN [st |-> route_lpm_add_demoted(
                        route_sw_stats_inc(add.st, PD_OBJ_STATE_NOT_NEEDED),
                        tbl, ip, depth, scope, p,
                        lpm_rule(add.st.lpm[tbl], ip, depth, add.old_scope)),
              rc |-> 0, lpm_rc |-> add.rc]
        ELSE [st |-> route_hw_stats_inc(
                        lpm_set_pd_state(
                            fal_ip4_new_route(
                                route_sw_stats_inc(add.st, PD_OBJ_STATE_FULL),
                                tbl, ip, depth),
                            tbl, ip, depth, scope,
                            route_pd_state(add.st, p, fal_ip4_route(add.st)),
                            fal_ip4_route(add.st) = 0),
                        route_pd_state(add.st, p, fal_ip4_route(add.st))),
              rc |-> 0, lpm_rc |-> add.rc])))

\* The end of route_lpm_delete and of flush_cleanup: the rule r has left the
\* LPM; its hardware route goes if it was created, and its bucket is
\* decremented unless the plugin refused the delete.
route_hw_stats_del(st, tbl, r) ==
    IF r.created
    THEN Bind(fal_ip4_del_route(st, tbl, r.ip, r.depth), LAMBDA st1 :
            IF fal_ip4_route(st) = 0 THEN route_hw_stats_dec(st1, r.state)
            ELSE st1)
    ELSE route_hw_stats_dec(st, r.state)

\* route_lpm_delete after lpm_delete said LPM_LOWER_SCOPE_EXISTS: new is the
\* rule that was promoted, rule the one removed.
route_lpm_delete_promoted(st, tbl, ip, depth, rule, new) ==
    IF st.entry[new.next_hop] = NULL
    THEN [st EXCEPT !.aborted = TRUE]
    ELSE route_hw_stats_inc(
            route_hw_stats_dec(
                lpm_set_pd_state(
                    IF rule.created THEN fal_ip4_upd_route(st, tbl, ip, depth)
                    ELSE fal_ip4_new_route(st, tbl, ip, depth),
                    tbl, ip, depth, new.scope,
                    route_pd_state(st, st.entry[new.next_hop],
                                   fal_ip4_route(st)),
                    fal_ip4_route(st) = 0 \/ rule.created \/ new.created),
                rule.state),
            route_pd_state(st, st.entry[new.next_hop], fal_ip4_route(st)))

\* A delete that takes every rule of the prefix with the one it was asked
\* to remove.
route_lpm_delete_prefix(st, tbl, ip0, depth, scope, nh_idx) ==
    Bind(lpm_delete(st, tbl, ip0, depth, scope), LAMBDA del :
        IF del.rc < 0
        THEN [st |-> del.st, rc |-> del.rc, next_hop |-> nh_idx]
        ELSE [st |-> [del.st EXCEPT !.lpm[tbl] =
                        {r \in @ : r.ip # del.rule.ip
                                   \/ r.depth # del.rule.depth}],
              rc |-> 0, next_hop |-> del.rule.next_hop])

\* Returns also the next hop index of the rule removed (*next_hop), which is
\* left alone when no rule was removed.
route_lpm_delete(st, tbl, ip0, depth, scope, nh_idx) ==
    Bind(depth_to_mask(ip0, depth), LAMBDA ip :
    Bind(lpm_delete(st, tbl, ip, depth, scope), LAMBDA del :
        IF del.rc = LPM_HIGHER_SCOPE_EXISTS
        THEN [st |-> c_assert(
                        route_sw_stats_dec(del.st, PD_OBJ_STATE_NOT_NEEDED),
                        del.rule.state = PD_OBJ_STATE_NOT_NEEDED),
              rc |-> del.rc, next_hop |-> del.rule.next_hop]
        ELSE IF del.rc = LPM_LOWER_SCOPE_EXISTS
        THEN [st |-> route_lpm_delete_promoted(
                        route_sw_stats_dec(del.st, PD_OBJ_STATE_NOT_NEEDED),
                        tbl, ip, depth, del.rule,
                        lpm_rule(del.st.lpm[tbl], ip, depth, del.new_scope)),
              rc |-> 0, next_hop |-> del.rule.next_hop]
        ELSE IF del.rc # LPM_SUCCESS
        THEN [st |-> del.st, rc |-> del.rc, next_hop |-> nh_idx]
        ELSE [st |-> route_hw_stats_del(
                        route_sw_stats_dec(del.st, PD_OBJ_STATE_FULL),
                        tbl, del.rule),
              rc |-> 0, next_hop |-> del.rule.next_hop]))

\* ------------------------------------------------------ group predicates
nextu_nc_count(nhu) ==
    Cardinality({i \in 1 .. Len(nhu.siblings) :
                    nh4_is_neigh_created(nhu.siblings[i])})

\* The first sibling that leaves through ifp, or 0.
nextu_find_path_using_ifp(st, nhu, ifp) ==
    Bind({i \in 1 .. Len(nhu.siblings) :
            nh4_get_ifp(st, nhu.siblings[i]) = ifp}, LAMBDA hit :
        IF hit = {} THEN 0 ELSE Min(hit))

nextu_is_any_connected(nhu) ==
    \E i \in 1 .. Len(nhu.siblings) : nh_is_connected(nhu.siblings[i])

\* in_lltable_find: the neighbour entry of an address on an interface.
in_lltable_find(st, ifp, addr) ==
    Bind({l \in st.lltable : l[1] = ifp /\ l[2] = addr}, LAMBDA hit :
        IF hit = {} THEN NoLle ELSE CHOOSE l \in hit : TRUE)

\* ------------------------------------------- NEIGH_CREATED route cleanup
\* changing = [ip, depth]
subtree_walk_route_cleanup_cb(st, tbl, masked_ip, depth, idx, changing) ==
    IF st.aborted \/ st.entry[idx] = NULL THEN st
    ELSE IF nextu_nc_count(st.heap[st.entry[idx]]) = 0 THEN st
    ELSE
    Bind(masked_ip # changing.ip /\ depth # changing.depth, LAMBDA check :
    Bind(lpm_find_cover(st.lpm[tbl], masked_ip, depth), LAMBDA cover :
        IF check /\ cover = <<>>
        THEN [st EXCEPT !.aborted = TRUE]
        ELSE IF check /\ (changing.ip # cover.ip
                          \/ changing.depth # cover.depth)
        THEN st
        ELSE nexthop_put(
                route_lpm_delete(st, tbl, masked_ip, AddrBits,
                                 RT_SCOPE_LINK, idx).st,
                idx)))

\* One visit of lpm_subtree_walk: the rule r, if it is still there.
lpm_subtree_walk_visit(st, tbl, r, changing) ==
    Bind(lpm_lookup_exact(st.lpm[tbl], r.ip, r.depth), LAMBDA now :
        IF now = <<>> THEN st
        ELSE subtree_walk_route_cleanup_cb(st, tbl, r.ip, r.depth,
                                           now.next_hop, changing))

RECURSIVE lpm_subtree_walk_rec(_, _, _, _)
lpm_subtree_walk_rec(st, tbl, todo, changing) ==
    IF todo = {} \/ st.aborted THEN st
    ELSE Bind(lpm_walk_first(todo), LAMBDA r :
            lpm_subtree_walk_rec(
                lpm_subtree_walk_visit(st, tbl, r, changing),
                tbl, todo \ {r}, changing))

\* lpm_subtree_walk(lpm, ip, depth, subtree_walk_route_cleanup_cb, arg)
lpm_subtree_walk(st, tbl, ip, depth, changing) ==
    lpm_subtree_walk_rec(st, tbl, lpm_subtree(st.lpm[tbl], ip, depth),
                         changing)

\* --------------------------------------------------- neighbour -> routes
RECURSIVE walk_nhs_for_arp_change_rec(_, _, _, _)
walk_nhs_for_arp_change_rec(st, todo, lle, cb) ==
    IF todo = {} \/ st.aborted THEN st
    ELSE Bind(Min(todo), LAMBDA p :
            walk_nhs_for_arp_change_rec(
                IF p \in {n.ptr : n \in st.hash}
                THEN route_nh_replace(st, p, st.heap[p].index, lle, FALSE,
                                      cb, lle).st
                ELSE st,
                todo \ {p}, lle, cb))

walk_nhs_for_arp_change(st, lle, cb) ==
    walk_nhs_for_arp_change_rec(st, {n.ptr : n \in st.hash}, lle, cb)

\* The tail of route_create_arp: the /32 route through the sibling found.
route_create_arp_add(st, tbl, ip, lle, nextu, sibling) ==
    Bind(nh4_set_neigh_created(st, nextu.siblings[sibling], lle),
         LAMBDA set :
    Bind(route_nexthop_new(
            c_assert(set.st, nextu.siblings[sibling].gateway = 0),
            [nextu.siblings EXCEPT
                ![sibling] = [set.nh EXCEPT !.gateway = ip]],
            RTPROT_UNSPEC), LAMBDA new :
        IF new.rc < 0 THEN new.st
        ELSE route_lpm_add(new.st, tbl, ip, AddrBits, new.slot,
                           RT_SCOPE_LINK).st))

route_create_arp(st, tbl, ip, lle) ==
    Bind(lpm_lookup(st.lpm[tbl], ip), LAMBDA r :
        IF r = <<>> THEN st
        ELSE IF st.entry[r.next_hop] = NULL
        THEN [st EXCEPT !.aborted = TRUE]
        ELSE
        Bind(st.heap[st.entry[r.next_hop]], LAMBDA nextu :
        Bind(nextu_find_path_using_ifp(st, nextu, lle_ifp(st, lle)),
             LAMBDA sibling :
            IF sibling = 0 THEN st
            ELSE IF ~nh_is_connected(nextu.siblings[sibling]) THEN st
            ELSE IF st.nomem THEN st
            ELSE route_create_arp_add(st, tbl, ip, lle, nextu, sibling))))

\* The first half of routing_insert_arp_safe: the /32 route of the
\* neighbour's own address.
routing_insert_arp_route(st, tbl, ip, ifp, lle) ==
    Bind(lpm_lookup_exact(st.lpm[tbl], ip, AddrBits), LAMBDA r :
        IF st.aborted THEN st
        ELSE IF r = <<>> THEN route_create_arp(st, tbl, ip, lle)
        ELSE IF st.entry[r.next_hop] = NULL
        THEN [st EXCEPT !.aborted = TRUE]
        ELSE
        Bind(st.heap[st.entry[r.next_hop]], LAMBDA nextu :
            IF nextu_find_path_using_ifp(st, nextu, ifp) = 0 THEN st
            ELSE route_nh_replace(st, st.entry[r.next_hop], r.next_hop, lle,
                    FALSE, "routing_arp_add_nh_replace_cb",
                    [ifp |-> ifp, count |-> nextu_nc_count(nextu)]).st))

routing_insert_arp_safe(st, lle, arp_change) ==
    Bind(routing_insert_arp_route(st, RT_TABLE_MAIN, ll_ipv4_addr(lle),
                                  lle_ifp(st, lle), lle), LAMBDA st1 :
        IF arp_change
        THEN walk_nhs_for_arp_change(st1, lle,
                                     "routing_arp_add_gw_nh_replace_cb")
        ELSE st1)

\* route_lpm_delete of the neighbour's /32 link-scope route and the
\* nexthop_put that follows it in routing_remove_arp_safe.
routing_remove_arp_delete(st, tbl, ip, nh_idx) ==
    Bind(route_lpm_delete(st, tbl, ip, AddrBits, RT_SCOPE_LINK, nh_idx),
         LAMBDA d : nexthop_put(d.st, d.next_hop))

\* The first half of routing_remove_arp_safe, for the route r found.
routing_remove_arp_route(st, tbl, ip, ifp, lle, r) ==
    Bind(st.entry[r.next_hop], LAMBDA p :
    Bind(st.heap[p], LAMBDA nextu :
    Bind(nextu_find_path_using_ifp(st, nextu, ifp), LAMBDA sibling :
        IF sibling # 0 /\ nh4_is_neigh_created(nextu.siblings[sibling])
        THEN IF Len(nextu.siblings) = 1
             THEN routing_remove_arp_delete(st, tbl, ip, r.next_hop)
             ELSE
             Bind(route_nh_replace(st, p, r.next_hop, lle, TRUE,
                        "arp_removal_nh_purge_cb",
                        [count |-> nextu_nc_count(nextu),
                         sibling |-> sibling]), LAMBDA del :
                IF del.ret # Len(nextu.siblings) THEN del.st
                ELSE routing_remove_arp_delete(del.st, tbl, ip, r.next_hop))
        ELSE route_nh_replace(st, p, r.next_hop, NoLle, FALSE,
                "routing_arp_del_nh_replace_cb", ifp).st)))

routing_remove_arp_safe(st, lle) ==
    Bind(lpm_lookup_exact(st.lpm[RT_TABLE_MAIN], ll_ipv4_addr(lle),
                          AddrBits), LAMBDA r :
    Bind(IF r = <<>> THEN st
         ELSE IF st.entry[r.next_hop] = NULL
         THEN [st EXCEPT !.aborted = TRUE]
         ELSE routing_remove_arp_route(st, RT_TABLE_MAIN, ll_ipv4_addr(lle),
                                       lle_ifp(st, lle), lle, r),
         LAMBDA st1 :
        walk_nhs_for_arp_change(st1, lle,
                                "routing_arp_del_gw_nh_replace_cb")))

\* ----------------------------------------------------- route -> neighbours
\* lle_routing_insert_arp_cb: the route mutex is released around the call;
\* mutex_rel counts the releases.
lle_routing_insert_arp_cb(st, lle) ==
    routing_insert_arp_safe([st EXCEPT !.mutex_rel = @ + 1], lle, FALSE)

\* lltable_walk(ifp->if_lltable, lle_routing_insert_arp_cb, NULL)
RECURSIVE lltable_walk_rec(_, _)
lltable_walk_rec(st, todo) ==
    IF todo = {} \/ st.aborted THEN st
    ELSE Bind(CHOOSE l \in todo : \A o \in todo : l[2] <= o[2], LAMBDA lle :
            lltable_walk_rec(
                IF lle \in st.lltable
                THEN lle_routing_insert_arp_cb(st, lle)
                ELSE st,
                todo \ {lle}))

lltable_walk(st, ifp) == lltable_walk_rec(st, {l \in st.lltable : l[1] = ifp})

\* One turn of the loop of route_change_process_nh: the group nhu after the
\* hop next was looked at, or NULL when the loop ends.
route_change_process_hop(st, nhu, index, next, cb) ==
    Bind(in_lltable_find(st, nh4_get_ifp(st, next), next.gateway),
         LAMBDA lle :
        IF nh4_get_ifp(st, next) = NULL \/ ~nh_is_gw(next) \/ lle = NoLle
        THEN [st |-> st, nhu |-> nhu]
        ELSE Bind(route_nh_replace(st, nhu, index, lle, FALSE, cb, lle).st,
                  LAMBDA st1 : [st |-> st1, nhu |-> st1.entry[index]]))

RECURSIVE route_change_process_nh_rec(_, _, _, _, _, _)
route_change_process_nh_rec(st, nhu, array, index, i, cb) ==
    IF i > Len(array) \/ st.aborted \/ nhu = NULL THEN st
    ELSE Bind(route_change_process_hop(st, nhu, index, array[i], cb),
              LAMBDA r :
                route_change_process_nh_rec(r.st, r.nhu, array, index, i + 1,
                                            cb))

route_change_process_nh(st, nhu, cb) ==
    route_change_process_nh_rec(st, nhu, st.heap[nhu].siblings,
                                st.heap[nhu].index, 1, cb)

RECURSIVE walk_nhs_for_route_change_rec(_, _, _)
walk_nhs_for_route_change_rec(st, todo, cb) ==
    IF todo = {} \/ st.aborted THEN st
    ELSE Bind(Min(todo), LAMBDA p :
            walk_nhs_for_route_change_rec(
                IF p \in {n.ptr : n \in st.hash}
                THEN route_change_process_nh(st, p, cb)
                ELSE st,
                todo \ {p}, cb))

walk_nhs_for_route_change(st, cb) ==
    walk_nhs_for_route_change_rec(st, {n.ptr : n \in st.hash}, cb)

\* The lltable walks of route_change_link_arp / route_delete_relink_arp over
\* the hops of a group; connected_only is the test of the latter.
RECURSIVE lltable_walk_hops(_, _, _, _)
lltable_walk_hops(st, array, i, connected_only) ==
    IF i > Len(array) \/ st.aborted THEN st
    ELSE lltable_walk_hops(
            IF nh4_get_ifp(st, array[i]) = NULL THEN st
            ELSE IF connected_only /\ ~nh_is_connected(array[i]) THEN st
            ELSE lltable_walk(st, nh4_get_ifp(st, array[i])),
            array, i + 1, connected_only)

\* Whether the cover of the prefix is connected; 0 no cover or not
\* connected, 1 connected, -1 the cover's slot is empty.
cover_is_connected(st, tbl, ip, depth) ==
    Bind(lpm_find_cover(st.lpm[tbl], ip, depth), LAMBDA cover :
        IF cover = <<>> THEN 0
        ELSE IF st.entry[cover.next_hop] = NULL THEN -1
        ELSE IF nextu_is_any_connected(st.heap[st.entry[cover.next_hop]])
        THEN 1 ELSE 0)

route_change_link_arp(st, tbl, ip, depth, nh_idx) ==
    IF st.aborted THEN st
    ELSE IF st.entry[nh_idx] = NULL THEN [st EXCEPT !.aborted = TRUE]
    ELSE
    Bind(st.heap[st.entry[nh_idx]], LAMBDA nextu :
    Bind([ip |-> ip, depth |-> depth], LAMBDA changing :
    Bind(IF nextu_is_any_connected(nextu)
         THEN lpm_subtree_walk(st, tbl, ip, depth, changing)
         ELSE Bind(cover_is_connected(st, tbl, ip, depth), LAMBDA c :
                IF c = -1 THEN [st EXCEPT !.aborted = TRUE]
                ELSE IF c = 1
                THEN lpm_subtree_walk(st, tbl, ip, depth, changing)
                ELSE st), LAMBDA st1 :
        walk_nhs_for_route_change(
            lltable_walk_hops(st1, nextu.siblings, 1, FALSE),
            "routing_arp_add_gw_nh_replace_cb"))))

\* route_delete_unlink_arp for the rule r found at the prefix.
route_delete_unlink_rule(st, tbl, ip, depth, r, changing) ==
    IF nextu_is_any_connected(st.heap[st.entry[r.next_hop]])
    THEN lpm_subtree_walk(
            subtree_walk_route_cleanup_cb(st, tbl, ip, depth, r.next_hop,
                                          changing),
            tbl, ip, depth, changing)
    ELSE Bind(cover_is_connected(st, tbl, ip, depth), LAMBDA c :
            IF c = -1 THEN [st EXCEPT !.aborted = TRUE]
            ELSE IF c = 1
            THEN subtree_walk_route_cleanup_cb(
                    lpm_subtree_walk(st, tbl, ip, depth, changing),
                    tbl, ip, depth, r.next_hop, changing)
            ELSE st)

route_delete_unlink_arp(st, tbl, ip, depth) ==
    Bind(lpm_lookup_exact(st.lpm[tbl], ip, depth), LAMBDA r :
        IF st.aborted \/ r = <<>> THEN st
        ELSE IF st.entry[r.next_hop] = NULL
        THEN [st EXCEPT !.aborted = TRUE]
        ELSE route_delete_unlink_rule(st, tbl, ip, depth, r,
                                      [ip |-> ip, depth |-> depth]))

route_delete_relink_arp(st, tbl, ip, depth) ==
    Bind(lpm_find_cover(st.lpm[tbl], ip, depth), LAMBDA cover :
        IF st.aborted \/ cover = <<>> THEN st
        ELSE IF st.entry[cover.next_hop] = NULL
        THEN [st EXCEPT !.aborted = TRUE]
        ELSE walk_nhs_for_route_change(
                lltable_walk_hops(st,
                    st.heap[st.entry[cover.next_hop]].siblings, 1, TRUE),
                "routing_arp_add_gw_nh_replace_cb"))

\* ------------------------------------------------------- reserved routes
\* 0/0, the loopback prefix and the broadcast address, scaled to AddrBits.
reserved_routes ==
    << [addr |-> 0, prefix_length |-> 0,
        flags |-> {RTF_NOROUTE, RTF_REJECT},
        scope |-> LPM_SCOPE_PAN_DIMENSIONAL],
       [addr |-> 2, prefix_length |-> AddrBits - 1,
        flags |-> {RTF_BLACKHOLE}, scope |-> RT_SCOPE_HOST],
       [addr |-> Pow2(AddrBits) - 1, prefix_length |-> AddrBits,
        flags |-> {RTF_BROADCAST, RTF_LOCAL}, scope |-> RT_SCOPE_HOST] >>

rt_lpm_is_empty(L) == lpm_rule_count(L) = Len(reserved_routes)

\* The assertion rt_lpm_is_empty makes before it answers.
rt_lpm_is_empty_assert(st, tbl) ==
    c_assert(st, lpm_rule_count(st.lpm[tbl]) >= Len(reserved_routes))

\* "unlock the VRF if this is the last route in this LPM": the end of
\* rt_delete, of a failed rt_insert and of a walk of rt_lpm_walk_util.
rt_vrf_delete_if_empty(st, tbl) ==
    Bind(rt_lpm_is_empty_assert(st, tbl), LAMBDA st1 :
        IF st1.aborted THEN st1
        ELSE IF rt_lpm_is_empty(st1.lpm[tbl]) THEN vrf_delete_by_ptr(st1)
        ELSE st1)

rt_is_reserved(addr, prefix_length, scope) ==
    \E rt_idx \in 1 .. Len(reserved_routes) :
        /\ addr = reserved_routes[rt_idx].addr
        /\ prefix_length = reserved_routes[rt_idx].prefix_length
        /\ scope = reserved_routes[rt_idx].scope

\* One turn of the loop of rt_lpm_add_reserved_routes.
rt_lpm_add_reserved_route(st, tbl, rr) ==
    IF st.nomem THEN [st |-> st, ok |-> FALSE]
    ELSE
    Bind(route_nexthop_new(st, <<next_hop(NULL, 0, rr.flags)>>,
                           RTPROT_UNSPEC), LAMBDA new :
        IF new.rc < 0 THEN [st |-> new.st, ok |-> FALSE]
        ELSE
        Bind(route_lpm_add(new.st, tbl, rr.addr, rr.prefix_length, new.slot,
                           rr.scope), LAMBDA add :
            IF add.rc # 0
            THEN [st |-> nexthop_put(add.st, new.slot), ok |-> FALSE]
            ELSE [st |-> add.st, ok |-> TRUE]))

RECURSIVE rt_lpm_add_reserved_routes_rec(_, _, _)
rt_lpm_add_reserved_routes_rec(st, tbl, rt_idx) ==
    IF rt_idx > Len(reserved_routes) THEN [st |-> st, ok |-> TRUE]
    ELSE Bind(rt_lpm_add_reserved_route(st, tbl, reserved_routes[rt_idx]),
              LAMBDA r :
                IF ~r.ok THEN r
                ELSE rt_lpm_add_reserved_routes_rec(r.st, tbl, rt_idx + 1))

rt_lpm_add_reserved_routes(st, tbl) ==
    rt_lpm_add_reserved_routes_rec(st, tbl, 1)

\* rt_create_lpm: a new table with the reserved routes, or none.
rt_create_lpm(st, id) ==
    Bind(rt_lpm_add_reserved_routes(
            [st EXCEPT !.lpm = [t \in DOMAIN st.lpm \cup {id} |->
                                    IF t = id THEN {} ELSE st.lpm[t]]], id),
         LAMBDA res :
        IF res.ok THEN res
        ELSE [st |-> [res.st EXCEPT !.lpm = [t \in DOMAIN st.lpm |-> @[t]]],
              ok |-> FALSE])

\* nexthop_tbl_init: the drop next hop takes the first slot.
nexthop_tbl_init(st) ==
    nexthop_new(st, <<next_hop(NULL, 0, {RTF_BLACKHOLE})>>, RTPROT_UNSPEC)

\* The tables before main() has run: static storage is zero.
nh_tbl_zero ==
    [entry |-> [i \in Slots |-> NULL], in_use |-> 0, rover |-> 0,
     hash |-> {}, heap |-> <<>>, lpm |-> <<>>, lltable |-> {},
     hw_nh |-> {}, hw_rt |-> {}, fal_bad |-> {}, rd_active |-> FALSE,
     pending |-> {}, rcu |-> {}, swaps |-> {},
     sw_stats |-> [s \in PdStates |-> 0],
     hw_stats |-> [s \in PdStates |-> 0], vrf_ref |-> 0, nomem |-> FALSE,
     lpm_full |-> FALSE, fal_rc |-> 0, garbage |-> NULL,
     mutex_rel |-> 0, aborted |-> FALSE]

\* The slot of nextu_blackhole.
nextu_blackhole == nexthop_tbl_init(nh_tbl_zero).slot

\* route_init of the default VRF: the main table with its reserved routes.
route_init(st) == rt_create_lpm(st, RT_TABLE_MAIN).st

\* ----------------------------------------------------- rt_insert / delete
\* The gateway a next hop of a host route is given.
rt_insert_hops(dst, depth, hops) ==
    [i \in 1 .. Len(hops) |->
        IF depth = AddrBits /\ RTF_GATEWAY \notin hops[i].flags
        THEN [hops[i] EXCEPT !.gateway = dst]
        ELSE hops[i]]

\* The replace half of rt_insert: the old rule goes, if there is one.
rt_insert_replace(st, tableid, dst, depth, scope) ==
    Bind(route_lpm_delete(route_delete_unlink_arp(st, tableid, dst, depth),
                          tableid, dst, depth, scope, 0), LAMBDA del :
        IF del.st.aborted THEN del.st
        ELSE IF del.rc >= 0 THEN nexthop_put(del.st, del.next_hop)
        ELSE del.st)

\* rt_insert from the lock on: the group is in slot idx.  Beside the value
\* rt_insert returns (rc), the result keeps what lpm_add (lpm_rc) and
\* route_lpm_add (add_rc) returned.
rt_insert_locked(st, tableid, dst, depth, scope, idx, replace) ==
    Bind(IF replace THEN rt_insert_replace(st, tableid, dst, depth, scope)
         ELSE st, LAMBDA st1 :
        IF st1.aborted
        THEN [st |-> st1, rc |-> 0, lpm_rc |-> -ENOENT, add_rc |-> -ENOENT,
              idx |-> idx]
        ELSE
        Bind(route_lpm_add(st1, tableid, dst, depth, idx, scope),
             LAMBDA add :
            [st |-> IF add.rc >= 0
                    THEN route_change_link_arp(add.st, tableid, dst, depth,
                                               idx)
                    ELSE nexthop_put(add.st, idx),
             rc |-> IF add.rc < 0 THEN add.rc ELSE 0,
             lpm_rc |-> add.lpm_rc, add_rc |-> add.rc, idx |-> idx]))

\* The head of rt_insert: the table is made, or the VRF gets a reference
\* for the first route of a table that is there.
rt_insert_get_lpm(st, tableid) ==
    IF tableid \notin DOMAIN st.lpm
    THEN rt_create_lpm(vrf_find_or_create(st), tableid)
    ELSE Bind(rt_lpm_is_empty_assert(st, tableid), LAMBDA st1 :
            [st |-> IF ~st1.aborted /\ rt_lpm_is_empty(st1.lpm[tableid])
                    THEN vrf_find_or_create(st1) ELSE st1,
             ok |-> TRUE])

\* The label err of rt_insert.
rt_insert_err(res, tableid) ==
    IF res.rc >= 0 \/ res.st.aborted THEN res
    ELSE [res EXCEPT !.st = rt_vrf_delete_if_empty(@, tableid)]

rt_insert(st, dst, depth, tableid, scope, proto, hops, replace) ==
    Bind(rt_insert_get_lpm(st, tableid), LAMBDA cr :
        IF ~cr.ok
        THEN [st |-> vrf_delete_by_ptr(cr.st), rc |-> -ENOENT,
              lpm_rc |-> -ENOENT, add_rc |-> -ENOENT, idx |-> 0]
        ELSE
        Bind(route_nexthop_new(
                c_assert(cr.st,
                    depth # AddrBits \/ \A i \in 1 .. Len(hops) :
                        RTF_GATEWAY \in hops[i].flags
                        \/ hops[i].gateway = 0),
                rt_insert_hops(dst, depth, hops), proto), LAMBDA new :
            rt_insert_err(
                IF new.rc < 0
                THEN [st |-> new.st, rc |-> new.rc, lpm_rc |-> new.rc,
                      add_rc |-> new.rc, idx |-> 0]
                ELSE rt_insert_locked(new.st, tableid, dst, depth, scope,
                                      new.slot, replace),
                tableid)))

\* rt_delete from the lock on.
rt_delete_locked(st, id, dst, depth, scope) ==
    Bind(route_lpm_delete(route_delete_unlink_arp(st, id, dst, depth),
                          id, dst, depth, scope, 0), LAMBDA del :
        IF del.st.aborted THEN [st |-> del.st, rc |-> 0]
        ELSE [st |-> IF del.rc >= 0
                     THEN route_delete_relink_arp(
                            nexthop_put(del.st, del.next_hop), id, dst,
                            depth)
                     ELSE del.st,
              rc |-> IF del.rc # 0 THEN -ENOENT ELSE 0])

rt_delete(st, dst, depth, id, scope) ==
    IF id \notin DOMAIN st.lpm THEN [st |-> st, rc |-> -ENOENT]
    ELSE IF rt_lpm_is_empty_assert(st, id).aborted
    THEN [st |-> rt_lpm_is_empty_assert(st, id), rc |-> 0]
    ELSE IF rt_lpm_is_empty(st.lpm[id]) THEN [st |-> st, rc |-> -ENOENT]
    ELSE Bind(rt_delete_locked(st, id, dst, depth, scope), LAMBDA del :
            IF del.st.aborted THEN del
            ELSE [del EXCEPT !.st = rt_vrf_delete_if_empty(@, id)])

\* ------------------------------------------------------------- rt_flush
flush_cleanup(st, tbl, r) ==
    nexthop_put(
        route_hw_stats_del(route_sw_stats_dec(st, PD_OBJ_STATE_FULL), tbl, r),
        r.next_hop)

\* lpm_delete_all(lpm, flush_cleanup, vrf)
RECURSIVE lpm_delete_all(_, _, _)
lpm_delete_all(st, tbl, todo) ==
    IF todo = {} \/ st.aborted THEN st
    ELSE Bind(lpm_walk_first(todo), LAMBDA r :
            lpm_delete_all(
                flush_cleanup([st EXCEPT !.lpm[tbl] = @ \ {r}], tbl, r),
                tbl, todo \ {r}))

RECURSIVE rt_flush_rec(_, _)
rt_flush_rec(st, ids) ==
    IF ids = {} \/ st.aborted THEN st
    ELSE Bind(Min(ids), LAMBDA id :
            rt_flush_rec(
                IF rt_lpm_is_empty_assert(st, id).aborted
                THEN rt_lpm_is_empty_assert(st, id)
                ELSE IF rt_lpm_is_empty(st.lpm[id]) THEN st
                ELSE vrf_delete_by_ptr(
                        rt_lpm_add_reserved_routes(
                            lpm_delete_all(st, id, st.lpm[id]), id).st),
                ids \ {id}))

rt_flush(st) == rt_flush_rec(st, DOMAIN st.lpm)

\* ------------------------------------------------------ interface events
\* nh->flags |= RTF_DEAD and friends: the hops of the group in the slot are
\* written where they are.
nh_flags_in_place(st, p, ifp, flag, set) ==
    [st EXCEPT !.heap[p].siblings =
        [i \in 1 .. Len(@) |->
            IF nh4_get_ifp(st, @[i]) = ifp
            THEN [@[i] EXCEPT !.flags = IF set THEN @ \cup {flag}
                                        ELSE @ \ {flag}]
            ELSE @[i]]]

\* rt_if_dead with state_rx = IF_RX_LINK_DEL
rt_if_dead(st, tbl, ip, depth, scope, idx, ifp) ==
    IF st.entry[idx] = NULL THEN [st EXCEPT !.aborted = TRUE]
    ELSE IF \A i \in 1 .. Len(st.heap[st.entry[idx]].siblings) :
              /\ nh4_get_ifp(st, st.heap[st.entry[idx]].siblings[i]) # ifp
              /\ RTF_DEAD \notin st.heap[st.entry[idx]].siblings[i].flags
    THEN st
    ELSE nexthop_put(
            route_lpm_delete(
                nh_flags_in_place(st, st.entry[idx], ifp, RTF_DEAD, TRUE),
                tbl, ip, depth, scope, 0).st,
            idx)

rt_if_deleted(st, tbl, r, ifp) ==
    rt_if_dead(st, tbl, r.ip, r.depth, r.scope, r.next_hop, ifp)

rt_if_clear_slowpath_flag(st, tbl, r, ifp) ==
    IF st.entry[r.next_hop] = NULL THEN [st EXCEPT !.aborted = TRUE]
    ELSE nh_flags_in_place(st, st.entry[r.next_hop], ifp, RTF_SLOWPATH,
                           FALSE)

rt_if_set_slowpath_flag(st, tbl, r, ifp) ==
    IF st.entry[r.next_hop] = NULL THEN [st EXCEPT !.aborted = TRUE]
    ELSE nh_flags_in_place(st, st.entry[r.next_hop], ifp, RTF_SLOWPATH,
                           TRUE)

rt_vrf_lpm_walk_cb(func, st, tbl, r, ifp) ==
    CASE func = "rt_if_deleted" -> rt_if_deleted(st, tbl, r, ifp)
      [] func = "rt_if_clear_slowpath_flag" ->
            rt_if_clear_slowpath_flag(st, tbl, r, ifp)
      [] func = "rt_if_set_slowpath_flag" ->
            rt_if_set_slowpath_flag(st, tbl, r, ifp)

\* One visit of lpm_walk_all_safe: the rule r as it is now, if still there.
lpm_walk_visit(st, tbl, r, func, ifp) ==
    Bind({o \in st.lpm[tbl] :
            o.ip = r.ip /\ o.depth = r.depth /\ o.scope = r.scope},
         LAMBDA now :
        IF now = {} THEN st
        ELSE rt_vrf_lpm_walk_cb(func, st, tbl, CHOOSE o \in now : TRUE, ifp))

\* lpm_walk_all_safe: every rule of the table, shadowed ones too.
RECURSIVE lpm_walk(_, _, _, _, _)
lpm_walk(st, tbl, todo, func, ifp) ==
    IF todo = {} \/ st.aborted THEN st
    ELSE Bind(lpm_walk_first(todo), LAMBDA r :
            lpm_walk(lpm_walk_visit(st, tbl, r, func, ifp), tbl, todo \ {r},
                     func, ifp))

RECURSIVE rt_lpm_walk_util_rec(_, _, _, _)
rt_lpm_walk_util_rec(st, ids, func, ifp) ==
    IF ids = {} \/ st.aborted THEN st
    ELSE Bind(Min(ids), LAMBDA id :
            rt_lpm_walk_util_rec(
                IF rt_lpm_is_empty_assert(st, id).aborted
                THEN rt_lpm_is_empty_assert(st, id)
                ELSE IF rt_lpm_is_empty(st.lpm[id]) THEN st
                ELSE rt_vrf_delete_if_empty(
                        lpm_walk(st, id, st.lpm[id], func, ifp), id),
                ids \ {id}, func, ifp))

rt_lpm_walk_util(st, func, ifp) ==
    rt_lpm_walk_util_rec(st, {id \in DOMAIN st.lpm : id <= RT_TABLE_MAIN},
                         func, ifp)

rt_if_purge(st, ifp) == rt_lpm_walk_util(st, "rt_if_deleted", ifp)
rt_if_handle_in_dataplane(st, ifp) ==
    rt_lpm_walk_util(st, "rt_if_clear_slowpath_flag", ifp)
rt_if_punt_to_slowpath(st, ifp) ==
    rt_lpm_walk_util(st, "rt_if_set_slowpath_flag", ifp)

\* ------------------------------------------------------------ the inputs
Ifps == {1}
Prefixes == {[ip |-> 4, depth |-> 2], [ip |-> 5, depth |-> AddrBits]}
NeighAddrs == {5}
Scopes == {RT_SCOPE_UNIVERSE, RT_SCOPE_LINK}
Protos == RTPROT_UNSPEC .. MaxProto
Fails == {"none", "nomem", "lpm_full"}
FalRcs == {0, -EOPNOTSUPP, -ENOSPC, -ENOMEM}

\* Neighbour entries that next hops still point to.
lle_refs(h) ==
    UNION {{h[p].siblings[i].lle : i \in
                {j \in 1 .. Len(h[p].siblings) :
                    h[p].siblings[j].flags
                        \cap {RTF_NEIGH_PRESENT, RTF_NEIGH_CREATED} # {}}}
           : p \in DOMAIN h}

\* What a read through a pointer to a freed neighbour entry may give.
Garbage ==
    IF lle_refs(heap) \subseteq lltable THEN {NULL} ELSE Ifps \cup {NULL}

Env(fail, frc, g) ==
    [St EXCEPT !.nomem = (fail = "nomem"), !.lpm_full = (fail = "lpm_full"),
               !.fal_rc = frc, !.garbage = g]

\* ============================================================== the event
\* bus and the caches of commands for interfaces that are not there yet
IfNames == {"dp1", "dp2"}
OpsSlots == 0 .. (DP_EVENT_MAX_OPS - 1)
NoOps == "NULL"
speed_event_ops == "speed_event_ops"
vhost_event_ops == "vhost_event_ops"
poe_event_ops == "poe_event_ops"
breakout_event_ops == "breakout_event_ops"

\* The state the command and event handlers work on.
Cs ==
    [dp_ops |-> dp_ops, speed_cfg_list |-> speed_cfg_list,
     vhost_cfg_list |-> vhost_cfg_list, poe_cfg_list |-> poe_cfg_list,
     breakout_cfg_list |-> breakout_cfg_list, ifnet |-> ifnet,
     if_cfg |-> if_cfg,
     log |-> <<>>, aborted |-> FALSE]

\* struct cfg_if_list: a list pointer that is NULL or names a map from
\* interface name to the copy of an argument vector.
cfg_if_list_null == [live |-> FALSE, if_list |-> {}]
cfg_if_list_create == [live |-> TRUE, if_list |-> {}]
if_list_count(l) == Cardinality(l.if_list)
cfg_if_list_lookup(l, ifname) == {le \in l.if_list : le.le_ifname = ifname}
cfg_if_list_add(l, ifname, argv) ==
    IF cfg_if_list_lookup(l, ifname) # {} THEN l
    ELSE [l EXCEPT !.if_list =
            @ \cup {[le_ifname |-> ifname, le_argv |-> argv]}]
cfg_if_list_del(l, ifname) ==
    [l EXCEPT !.if_list = @ \ cfg_if_list_lookup(l, ifname)]

\* dp_event_register: the first empty slot takes the ops; no slot, panic.
dp_event_register(cs, ops) ==
    IF \A i \in OpsSlots : cs.dp_ops[i] # NoOps
    THEN [cs EXCEPT !.aborted = TRUE]
    ELSE [cs EXCEPT !.dp_ops[Min({i \in OpsSlots : cs.dp_ops[i] = NoOps})]
                        = ops]

\* dp_event_unregister: the first slot that holds the ops is cleared.
dp_event_unregister(cs, ops) ==
    IF \A i \in OpsSlots : cs.dp_ops[i] # ops THEN cs
    ELSE [cs EXCEPT !.dp_ops[Min({i \in OpsSlots : cs.dp_ops[i] = ops})]
                        = NoOps]

\* atoi of the words the commands are given.
atoi(s) ==
    IF s = "1000" THEN 1000 ELSE IF s = "100" THEN 100
    ELSE IF s = "1" THEN 1 ELSE 0

\* rte_eth_speed_bitflag(speed, duplex), as the pair it stands for.
rte_eth_speed_bitflag(speed, duplex) == {<<speed, duplex>>}
ETH_LINK_SPEED_AUTONEG == {}
ETH_LINK_SPEED_FIXED == {<<0, 0>>}

\* set_speed: the interface takes the link speeds.
set_speed(cs, ifname, link_speeds) ==
    [cs EXCEPT !.if_cfg[ifname].link_speeds = link_speeds,
               !.log = Append(@, [cmd |-> "speed", ifname |-> ifname,
                                  arg |-> link_speeds])]

speed_replay_init(cs) ==
    IF ~cs.speed_cfg_list.live
    THEN dp_event_register([cs EXCEPT !.speed_cfg_list = cfg_if_list_create],
                           speed_event_ops)
    ELSE cs

\* The link speeds the words of the command ask for; "usage" when the
\* words are wrong.
cmd_speed_link_speeds(argv) ==
    IF Len(argv) = 5 /\ argv[5] \notin {"full", "half", "auto"} THEN "usage"
    ELSE IF argv[4] = "auto" THEN ETH_LINK_SPEED_AUTONEG
    ELSE IF atoi(argv[4]) = 0 THEN "usage"
    ELSE IF Len(argv) = 5 /\ argv[5] = "full"
    THEN rte_eth_speed_bitflag(atoi(argv[4]), 1) \cup ETH_LINK_SPEED_FIXED
    ELSE IF Len(argv) = 5 /\ argv[5] = "half"
    THEN rte_eth_speed_bitflag(atoi(argv[4]), 0) \cup ETH_LINK_SPEED_FIXED
    ELSE rte_eth_speed_bitflag(atoi(argv[4]), 0)
         \cup rte_eth_speed_bitflag(atoi(argv[4]), 1)
         \cup ETH_LINK_SPEED_FIXED

cmd_speed_link_speeds_ok(argv) ==
    /\ Len(argv) > 3 /\ Len(argv) < 6 /\ argv[2] = "set"
    /\ Len(argv) = 5 => argv[5] \in {"full", "half", "auto"}
    /\ argv[4] = "auto" \/ atoi(argv[4]) # 0

\* cmd_speed: speed set <ifname> <auto|10|100|1000|...> [auto|full|half]
cmd_speed(cs, argv) ==
    IF Len(argv) < 2 THEN [st |-> cs, rc |-> -1]
    ELSE IF ~(argv[2] = "set" /\ Len(argv) > 3 /\ Len(argv) < 6)
    THEN [st |-> cs, rc |-> -1]
    ELSE IF Len(argv) = 5 /\ argv[5] \notin {"full", "half", "auto"}
    THEN [st |-> cs, rc |-> -1]
    ELSE IF argv[4] # "auto" /\ atoi(argv[4]) = 0
    THEN [st |-> cs, rc |-> -1]
    ELSE IF argv[3] \notin cs.ifnet
    THEN [st |-> Bind(speed_replay_init(cs), LAMBDA c :
                    IF c.aborted THEN c
                    ELSE [c EXCEPT !.speed_cfg_list =
                            cfg_if_list_add(@, argv[3], argv)]),
          rc |-> 0]
    ELSE [st |-> set_speed(cs, argv[3], cmd_speed_link_speeds(argv)),
          rc |-> 0]

speed_list_release(cs) ==
    IF if_list_count(cs.speed_cfg_list) = 0
    THEN [dp_event_unregister(cs, speed_event_ops)
            EXCEPT !.speed_cfg_list = cfg_if_list_null]
    ELSE cs

\* speed_event_if_index_set without the cfg_if_list_del: the command stays
\* in the cache after its replay.
speed_event_if_index_set_keep(cs, ifname) ==
    IF ~cs.speed_cfg_list.live THEN cs
    ELSE IF cfg_if_list_lookup(cs.speed_cfg_list, ifname) = {} THEN cs
    ELSE cmd_speed(cs, (CHOOSE le \in cfg_if_list_lookup(cs.speed_cfg_list,
                                        ifname) : TRUE).le_argv).st

speed_event_if_index_set(cs, ifname) ==
    IF ~cs.speed_cfg_list.live THEN cs
    ELSE IF cfg_if_list_lookup(cs.speed_cfg_list, ifname) = {} THEN cs
    ELSE Bind(CHOOSE le \in cfg_if_list_lookup(cs.speed_cfg_list, ifname) :
                TRUE, LAMBDA le :
         Bind(cmd_speed(cs, le.le_argv).st, LAMBDA c :
            IF c.aborted THEN c
            ELSE speed_list_release(
                    [c EXCEPT !.speed_cfg_list =
                        cfg_if_list_del(@, ifname)])))

\* speed_event_if_index_unset that leaves the cache as it is.
speed_event_if_index_unset_keep(cs, ifname) == cs

speed_event_if_index_unset(cs, ifname) ==
    IF ~cs.speed_cfg_list.live THEN cs
    ELSE speed_list_release(
            [cs EXCEPT !.speed_cfg_list = cfg_if_list_del(@, ifname)])

\* vhost_byname, for the names that start with "dp".
vhost_byname(cs, name) == name \in cs.ifnet

vhost_replay_init(cs) ==
    dp_event_register(
        IF ~cs.vhost_cfg_list.live
        THEN [cs EXCEPT !.vhost_cfg_list = cfg_if_list_create]
        ELSE cs,
        vhost_event_ops)

\* vhost-client transport-link <vhost_dev> <transport_dev> add|del
cmd_vhost_transport_update(cs, argv, add) ==
    IF ~vhost_byname(cs, argv[3])
    THEN [st |-> Bind(vhost_replay_init(cs), LAMBDA c :
                    IF c.aborted THEN c
                    ELSE [c EXCEPT !.vhost_cfg_list =
                            cfg_if_list_add(@, argv[3], argv)]),
          rc |-> 0]
    ELSE [st |-> [cs EXCEPT
                    !.if_cfg[argv[3]].transport_links =
                        IF add THEN @ \cup {argv[4]} ELSE @ \ {argv[4]},
                    !.log = Append(@, [cmd |-> "vhost-client",
                                       ifname |-> argv[3],
                                       arg |-> <<argv[4], argv[5]>>])],
          rc |-> 0]

\* __cmd_vhost_cfg, for the transport-link commands.
cmd_vhost_client_cfg(cs, argv) ==
    IF Len(argv) < 3 THEN [st |-> cs, rc |-> -1]
    ELSE IF argv[2] = "transport-link" /\ Len(argv) = 5
    THEN IF argv[5] = "add" THEN cmd_vhost_transport_update(cs, argv, TRUE)
         ELSE IF argv[5] = "del"
         THEN cmd_vhost_transport_update(cs, argv, FALSE)
         ELSE [st |-> cs, rc |-> -1]
    ELSE [st |-> cs, rc |-> -1]

vhost_event_if_index_set(cs, ifname) ==
    IF ~cs.vhost_cfg_list.live THEN cs
    ELSE IF cfg_if_list_lookup(cs.vhost_cfg_list, ifname) = {} THEN cs
    ELSE Bind(CHOOSE le \in cfg_if_list_lookup(cs.vhost_cfg_list, ifname) :
                TRUE, LAMBDA le :
         Bind(cmd_vhost_client_cfg(cs, le.le_argv).st, LAMBDA c :
            IF c.aborted THEN c
            ELSE Bind([c EXCEPT !.vhost_cfg_list =
                        cfg_if_list_del(@, ifname)], LAMBDA d :
                IF if_list_count(d.vhost_cfg_list) = 0
                THEN [d EXCEPT !.vhost_cfg_list = cfg_if_list_null]
                ELSE d)))

vhost_event_if_index_unset(cs, ifname) ==
    IF ~cs.vhost_cfg_list.live THEN cs
    ELSE Bind([cs EXCEPT !.vhost_cfg_list = cfg_if_list_del(@, ifname)],
              LAMBDA d :
            IF if_list_count(d.vhost_cfg_list) = 0
            THEN [dp_event_unregister(d, vhost_event_ops)
                    EXCEPT !.vhost_cfg_list = cfg_if_list_null]
            ELSE d)

\* ---------------------------------------------------- poe and breakout
poe_replay_init(cs) ==
    IF ~cs.poe_cfg_list.live
    THEN dp_event_register([cs EXCEPT !.poe_cfg_list = cfg_if_list_create],
                           poe_event_ops)
    ELSE cs

\* cmd_poe: poe enable <ifname> [priority low|high|critical]
\*          poe disable <ifname>
cmd_poe(cs, argv) ==
    IF Len(argv) < 2 THEN [st |-> cs, rc |-> -1]
    ELSE IF ~(\/ argv[2] = "enable" /\ Len(argv) >= 3
              \/ argv[2] = "disable" /\ Len(argv) = 3)
    THEN [st |-> cs, rc |-> -1]
    ELSE IF Len(argv) > 3 /\ argv[4] = "priority"
            /\ (Len(argv) < 5
                \/ argv[5] \notin {"low", "high", "critical"})
    THEN [st |-> cs, rc |-> -1]
    ELSE IF argv[3] \notin cs.ifnet
    THEN [st |-> Bind(poe_replay_init(cs), LAMBDA c :
                    IF c.aborted THEN c
                    ELSE [c EXCEPT !.poe_cfg_list =
                            cfg_if_list_add(@, argv[3], argv)]),
          rc |-> -1]
    ELSE [st |-> [cs EXCEPT
                    !.if_cfg[argv[3]].poe =
                        <<argv[2],
                          IF Len(argv) > 3 /\ argv[4] = "priority"
                          THEN argv[5] ELSE "low">>,
                    !.log = Append(@, [cmd |-> "poe", ifname |-> argv[3],
                                       arg |-> argv[2]])],
          rc |-> 0]

poe_list_release(cs) ==
    IF if_list_count(cs.poe_cfg_list) = 0
    THEN [dp_event_unregister(cs, poe_event_ops)
            EXCEPT !.poe_cfg_list = cfg_if_list_null]
    ELSE cs

poe_event_if_index_set(cs, ifname) ==
    IF ~cs.poe_cfg_list.live THEN cs
    ELSE IF cfg_if_list_lookup(cs.poe_cfg_list, ifname) = {} THEN cs
    ELSE Bind(cmd_poe(cs, (CHOOSE le \in
                cfg_if_list_lookup(cs.poe_cfg_list, ifname) : TRUE).le_argv).st,
              LAMBDA c :
            IF c.aborted THEN c
            ELSE poe_list_release(
                    [c EXCEPT !.poe_cfg_list = cfg_if_list_del(@, ifname)]))

poe_event_if_index_unset(cs, ifname) ==
    IF ~cs.poe_cfg_list.live THEN cs
    ELSE poe_list_release(
            [cs EXCEPT !.poe_cfg_list = cfg_if_list_del(@, ifname)])

breakout_replay_init(cs) ==
    IF ~cs.breakout_cfg_list.live
    THEN dp_event_register(
            [cs EXCEPT !.breakout_cfg_list = cfg_if_list_create],
            breakout_event_ops)
    ELSE cs

\* cmd_breakout: breakout SET|DELETE <intf> <subports>
cmd_breakout(cs, argv) ==
    IF Len(argv) < 4 THEN [st |-> cs, rc |-> -1]
    ELSE IF argv[3] \notin cs.ifnet
    THEN [st |-> Bind(breakout_replay_init(cs), LAMBDA c :
                    IF c.aborted THEN c
                    ELSE [c EXCEPT !.breakout_cfg_list =
                            cfg_if_list_add(@, argv[3], argv)]),
          rc |-> 0]
    ELSE [st |-> [cs EXCEPT
                    !.if_cfg[argv[3]].breakout =
                        IF argv[2] = "DELETE" THEN 0 ELSE atoi(argv[4]),
                    !.log = Append(@, [cmd |-> "breakout",
                                       ifname |-> argv[3],
                                       arg |-> argv[2]])],
          rc |-> 0]

breakout_list_release(cs) ==
    IF if_list_count(cs.breakout_cfg_list) = 0
    THEN [dp_event_unregister(cs, breakout_event_ops)
            EXCEPT !.breakout_cfg_list = cfg_if_list_null]
    ELSE cs

breakout_event_if_index_set(cs, ifname) ==
    IF ~cs.breakout_cfg_list.live THEN cs
    ELSE IF cfg_if_list_lookup(cs.breakout_cfg_list, ifname) = {} THEN cs
    ELSE Bind(cmd_breakout(cs, (CHOOSE le \in
                cfg_if_list_lookup(cs.breakout_cfg_list, ifname) :
                    TRUE).le_argv).st,
              LAMBDA c :
            IF c.aborted THEN c
            ELSE breakout_list_release(
                    [c EXCEPT !.breakout_cfg_list =
                        cfg_if_list_del(@, ifname)]))

breakout_event_if_index_unset(cs, ifname) ==
    IF ~cs.breakout_cfg_list.live THEN cs
    ELSE breakout_list_release(
            [cs EXCEPT !.breakout_cfg_list = cfg_if_list_del(@, ifname)])

\* dp_evt_notify: the callback of the ops for the event, if it has one.
dp_evt_notify(cs, evt, ops, ifname) ==
    CASE ops = speed_event_ops /\ evt = "DP_EVT_IF_INDEX_SET" ->
            speed_event_if_index_set(cs, ifname)
      [] ops = speed_event_ops /\ evt = "DP_EVT_IF_INDEX_UNSET" ->
            speed_event_if_index_unset(cs, ifname)
      [] ops = vhost_event_ops /\ evt = "DP_EVT_IF_INDEX_SET" ->
            vhost_event_if_index_set(cs, ifname)
      [] ops = vhost_event_ops /\ evt = "DP_EVT_IF_INDEX_UNSET" ->
            vhost_event_if_index_unset(cs, ifname)
      [] ops = poe_event_ops /\ evt = "DP_EVT_IF_INDEX_SET" ->
            poe_event_if_index_set(cs, ifname)
      [] ops = poe_event_ops /\ evt = "DP_EVT_IF_INDEX_UNSET" ->
            poe_event_if_index_unset(cs, ifname)
      [] ops = breakout_event_ops /\ evt = "DP_EVT_IF_INDEX_SET" ->
            breakout_event_if_index_set(cs, ifname)
      [] ops = breakout_event_ops /\ evt = "DP_EVT_IF_INDEX_UNSET" ->
            breakout_event_if_index_unset(cs, ifname)
      [] OTHER -> cs

\* dp_event: every slot in turn, as it is when its turn comes.
RECURSIVE dp_event_from(_, _, _, _)
dp_event_from(cs, evt, ifname, i) ==
    IF i >= DP_EVENT_MAX_OPS \/ cs.aborted THEN cs
    ELSE dp_event_from(
            IF cs.dp_ops[i] # NoOps
            THEN dp_evt_notify(cs, evt, cs.dp_ops[i], ifname)
            ELSE cs,
            evt, ifname, i + 1)

dp_event(cs, evt, ifname) == dp_event_from(cs, evt, ifname, 0)

\* The handler has returned with the caches and the bus as cs has them.
CommitCs(cs, tr) ==
    /\ ~aborted
    /\ aborted' = cs.aborted
    /\ trace' = IF cs.aborted THEN [op |-> tr.op]
                ELSE [log |-> cs.log] @@ tr
    /\ dp_ops' = IF cs.aborted THEN dp_ops ELSE cs.dp_ops
    /\ speed_cfg_list' = IF cs.aborted THEN speed_cfg_list
                         ELSE cs.speed_cfg_list
    /\ vhost_cfg_list' = IF cs.aborted THEN vhost_cfg_list
                         ELSE cs.vhost_cfg_list
    /\ poe_cfg_list' = IF cs.aborted THEN poe_cfg_list
                       ELSE cs.poe_cfg_list
    /\ breakout_cfg_list' = IF cs.aborted THEN breakout_cfg_list
                            ELSE cs.breakout_cfg_list
    /\ ifnet' = IF cs.aborted THEN ifnet ELSE cs.ifnet
    /\ if_cfg' = IF cs.aborted THEN if_cfg ELSE cs.if_cfg
    /\ UNCHANGED <<route_vars, nl_vars, con_vars, pl_vars, more_vars>>

SpeedArgvs ==
    UNION {{<<"speed", "set", n, "1000", "full">>,
            <<"speed", "set", n, "auto">>,
            <<"speed", "set", n, "fast">>} : n \in IfNames}
    \cup {<<"speed">>}

VhostArgvs ==
    UNION {{<<"vhost-client", "transport-link", n, "dp0", "add">>,
            <<"vhost-client", "transport-link", n, "dp0", "del">>,
            <<"vhost-client", "transport-link", n, "dp0", "chg">>}
           : n \in IfNames}

\* The controller sets the speed of an interface.
CmdSpeed ==
    \E argv \in SpeedArgvs :
        \E r \in {cmd_speed(Cs, argv)} :
            CommitCs(r.st, [op |-> "cmd_speed", rc |-> r.rc, argv |-> argv])

\* The controller links a vhost interface to a transport interface.
CmdVhostClientCfg ==
    \E argv \in VhostArgvs :
        \E r \in {cmd_vhost_client_cfg(Cs, argv)} :
            CommitCs(r.st, [op |-> "cmd_vhost_client_cfg", rc |-> r.rc,
                            argv |-> argv])

PoeArgvs ==
    {<<"poe", "enable", "dp1", "priority", "high">>,
     <<"poe", "disable", "dp1">>,
     <<"poe", "enable", "dp1", "priority", "top">>}

BreakoutArgvs ==
    {<<"breakout", "SET", "dp1", "100">>, <<"breakout", "DELETE", "dp1", "0">>,
     <<"breakout", "SET", "dp1">>}

\* The controller sets the PoE mode of an interface.
CmdPoe ==
    \E argv \in PoeArgvs :
        \E r \in {cmd_poe(Cs, argv)} :
            CommitCs(r.st, [op |-> "cmd_poe", rc |-> r.rc, argv |-> argv])

\* The controller breaks a port out into subports.
CmdBreakout ==
    \E argv \in BreakoutArgvs :
        \E r \in {cmd_breakout(Cs, argv)} :
            CommitCs(r.st, [op |-> "cmd_breakout", rc |-> r.rc,
                            argv |-> argv])

\* An interface gets its index: DP_EVT_IF_INDEX_SET goes round the bus.
IfIndexSet ==
    \E ifname \in IfNames :
        /\ ifname \notin ifnet
        /\ CommitCs(dp_event([Cs EXCEPT !.ifnet = @ \cup {ifname}],
                             "DP_EVT_IF_INDEX_SET", ifname),
                    [op |-> "if_index_set", rc |-> 0, ifname |-> ifname])

\* An interface loses its index and goes away; the interface may be one
\* that the commands could not find by its name.  had: the commands that
\* waited for the name.
IfIndexUnset ==
    \E ifname \in IfNames :
        CommitCs([dp_event(Cs, "DP_EVT_IF_INDEX_UNSET", ifname)
                    EXCEPT !.ifnet = @ \ {ifname},
                           !.if_cfg[ifname] = if_cfg_zero],
                 [op |-> "if_index_unset", rc |-> 0, ifname |-> ifname,
                  had |-> cfg_if_list_lookup(speed_cfg_list, ifname)
                          \cup cfg_if_list_lookup(vhost_cfg_list, ifname)])


\* ================================================ missed netlink messages
\* Netlink messages for an interface that is hidden are kept, one per
\* object, and replayed when the interface is back.
MissedIfindexes == {1, 2}
MissedObjects == {"unspec_link", "unspec_addr", "inet_addr"}
missed_stats_zero ==
    [missed_add |-> 0, missed_update |-> 0, missed_del |-> 0,
     missed_replayed |-> 0]

Ms == [cache |-> missed_cache, stats |-> missed_stats]

\* missed_nl_*_add: the add is kept; an add for an object that has one
\* takes its place and counts as an update.
missed_nl_add(ms, ifindex, obj) ==
    IF <<ifindex, obj>> \in ms.cache
    THEN [ms EXCEPT !.stats.missed_update = @ + 1]
    ELSE [ms EXCEPT !.cache = @ \cup {<<ifindex, obj>>},
                    !.stats.missed_add = @ + 1]

\* missed_nl_*_del: the add that was kept for the object is dropped.
missed_nl_del(ms, ifindex, obj) ==
    IF <<ifindex, obj>> \in ms.cache
    THEN [ms EXCEPT !.cache = @ \ {<<ifindex, obj>>},
                    !.stats.missed_del = @ + 1]
    ELSE ms

\* missed_netlink_replay that keeps what it has replayed.
missed_netlink_replay_keep(ms, ifindex) ==
    [ms EXCEPT !.stats.missed_replayed =
        @ + Cardinality({e \in ms.cache : e[1] = ifindex})]

\* missed_netlink_replay: every add kept for the interface is replayed and
\* dropped.
missed_netlink_replay(ms, ifindex) ==
    [ms EXCEPT !.cache = {e \in @ : e[1] # ifindex},
               !.stats.missed_replayed =
                    @ + Cardinality({e \in ms.cache : e[1] = ifindex})]

CommitMs(ms, tr) ==
    /\ ~aborted
    /\ \A c \in DOMAIN ms.stats : ms.stats[c] <= MaxMissed
    /\ missed_cache' = ms.cache
    /\ missed_stats' = ms.stats
    /\ trace' = tr
    /\ UNCHANGED <<route_vars, cfg_vars, con_vars, pl_vars, more_vars, aborted>>

MissedAdd ==
    \E ifindex \in MissedIfindexes, obj \in MissedObjects :
        CommitMs(missed_nl_add(Ms, ifindex, obj),
                 [op |-> "missed_nl_add", ifindex |-> ifindex, obj |-> obj])

MissedDel ==
    \E ifindex \in MissedIfindexes, obj \in MissedObjects :
        CommitMs(missed_nl_del(Ms, ifindex, obj),
                 [op |-> "missed_nl_del", ifindex |-> ifindex, obj |-> obj])

MissedReplay ==
    \E ifindex \in MissedIfindexes :
        CommitMs(missed_netlink_replay(Ms, ifindex),
                 [op |-> "missed_netlink_replay", ifindex |-> ifindex])

\* ========================================================== the console
\* A command line is the sequence of its words; argv is 1-based, argv[1]
\* the verb.
MAX_ARGS == 128
VRF_DEFAULT_ID == 1
CONSOLE_CMD_ASYNC == "ASYNC"
NoFn == "NULL"
ConfigItems == {"route", "address"}

\* split: at most MAX_ARGS - 1 words are kept.
split(line) ==
    IF Len(line) < MAX_ARGS THEN line ELSE SubSeq(line, 1, MAX_ARGS - 1)

cmd_table == [reset |-> "cmd_reset", route |-> "cmd_route",
              local |-> "cmd_local"]

find_cmd(tbl, name) ==
    IF name # "#" /\ name # "" /\ name \in DOMAIN tbl THEN tbl[name] ELSE NoFn

rcu_read_lock(rcu) == [rcu EXCEPT !.nesting = @ + 1]
rcu_read_unlock(rcu) == [rcu EXCEPT !.nesting = @ - 1]
rcu_thread_online(rcu) == [rcu EXCEPT !.online = TRUE]
rcu_thread_offline(rcu) == [rcu EXCEPT !.online = FALSE]

\* The console thread and what it shares with the master thread, with the
\* result of the call in rc and out.
Con ==
    [rcu |-> con_rcu, pair |-> cmd_pair, config |-> dp_config,
     rc |-> 0, out |-> {}, handler |-> <<>>, xchg |-> <<>>]

\* reset_dataplane: everything configured is torn down.
cmd_reset(con, argv) == [con EXCEPT !.config = {}, !.rc = 0]

\* cmd_route shows what is configured.
cmd_route(con, argv) == [con EXCEPT !.out = con.config, !.rc = 0]

cmd_local(con, argv) ==
    Bind(IF Len(argv) = 3 /\ argv[2] = "vrf_id"
         THEN atoi(argv[3]) ELSE VRF_DEFAULT_ID,
         LAMBDA vrf_id :
            IF vrf_id # VRF_DEFAULT_ID
            THEN [con EXCEPT !.rc = -1]
            ELSE [con EXCEPT !.out = {"local"}, !.rc = 0])

\* (*fn)(f, argc, argv); the status the handler returned is kept in handler.
call_cmd(con, fn, argv) ==
    Bind(CASE fn = "cmd_reset" -> cmd_reset(con, argv)
           [] fn = "cmd_route" -> cmd_route(con, argv)
           [] fn = "cmd_local" -> cmd_local(con, argv),
         LAMBDA r : [r EXCEPT !.handler = <<r.rc>>])

\* send_console_cmd; xchg keeps the reader state of the exchange and the one
\* the function returned with.
send_console_cmd(con, fn, line, async, send_ok, recv_ok, cmd_response) ==
    Bind(rcu_thread_offline(rcu_read_unlock(con.rcu)),
         LAMBDA off :
            IF ~send_ok
            THEN [con EXCEPT !.rcu = off, !.rc = -1, !.xchg = <<off, off>>]
            ELSE [con EXCEPT
                    !.rcu = rcu_read_lock(rcu_thread_online(off)),
                    !.pair = Append(@, [fn |-> fn, line |-> line,
                        flags |-> IF async THEN {CONSOLE_CMD_ASYNC} ELSE {}]),
                    !.rc = IF async THEN 0
                           ELSE IF ~recv_ok THEN -1 ELSE cmd_response,
                    !.xchg = <<off, rcu_read_lock(rcu_thread_online(off))>>])

console_cmd(con, line, fn0, on_master, send_ok) ==
    Bind(split(line),
         LAMBDA argv :
            IF argv = <<>>
            THEN [con EXCEPT !.rc = -1]
            ELSE Bind(IF fn0 = NoFn THEN find_cmd(cmd_table, argv[1])
                      ELSE fn0,
                      LAMBDA fn :
                        IF fn = NoFn
                        THEN [con EXCEPT !.rc = -1, !.out = {"Unknown command"}]
                        ELSE IF ~on_master /\ fn = "cmd_reset"
                        THEN send_console_cmd(con, fn, line, TRUE, send_ok,
                                              TRUE, 0)
                        ELSE call_cmd(con, fn, argv)))

\* console_request: the command is run and the two-part response sent.
console_request(con, line, send_ok) ==
    Bind(console_cmd([con EXCEPT
                        !.rcu = rcu_read_lock(rcu_thread_online(con.rcu))],
                     line, NoFn, FALSE, send_ok),
         LAMBDA r :
            [con |-> [r EXCEPT
                        !.rcu = rcu_thread_offline(rcu_read_unlock(r.rcu))],
             frames |-> <<IF r.rc = 0 THEN "OK" ELSE "ERROR", r.out>>])

\* console_cmd_master_handler: the master thread runs the first command in
\* flight.  The line is the console thread's buffer, which console_request
\* has freed by now: what the master thread reads there is either the line
\* still or nothing.
console_cmd_master_handler(con, intact) ==
    Bind(Head(con.pair),
         LAMBDA msg :
            console_cmd([con EXCEPT !.pair = Tail(@)],
                        IF intact THEN msg.line ELSE <<>>,
                        msg.fn, TRUE, TRUE))

CommitCon(con, tr) ==
    /\ ~aborted
    /\ Len(con.pair) <= MaxPair
    /\ con.rcu.nesting >= 0 - MaxSendFail
    /\ con_rcu' = con.rcu
    /\ cmd_pair' = con.pair
    /\ dp_config' = con.config
    /\ trace' = tr
    /\ UNCHANGED <<route_vars, cfg_vars, nl_vars, pl_vars, more_vars, aborted>>

ConsoleLines ==
    {<<"reset">>, <<"route">>, <<"local">>, <<"local", "vrf_id", "100">>,
     <<"bogus">>, <<>>}

\* A command line arrives on the console socket.
ConsoleRequest ==
    \E line \in ConsoleLines, send_ok \in BOOLEAN :
        /\ send_ok \/ line = <<"reset">>
        /\ \E r \in {console_request(Con, line, send_ok)} :
            /\ CommitCon(r.con,
                  [op |-> "console_request", line |-> line,
                   frames |-> r.frames, handler |-> r.con.handler,
                   xchg |-> r.con.xchg, after_reset |-> reset_answered])
            /\ reset_answered' =
                  IF line = <<"reset">> THEN r.frames[1] = "OK"
                  ELSE reset_answered

\* The master thread takes a command from the console thread.
ConsoleCmdMaster ==
    /\ cmd_pair # <<>>
    /\ \E intact \in BOOLEAN :
        \E r \in {console_cmd_master_handler(Con, intact)} :
            /\ CommitCon(r, [op |-> "console_cmd_master_handler",
                             handler |-> r.handler])
            /\ UNCHANGED reset_answered

\* The master thread applies a configuration message of the controller.
DpConfigure ==
    \E item \in ConfigItems :
        /\ item \notin dp_config
        /\ CommitCon([Con EXCEPT !.config = @ \cup {item}],
                     [op |-> "configure", item |-> item])
        /\ reset_answered' = FALSE

\* ====================================================== Ethernet lookup
\* A port with a macvlan, a vlan (vid 10) and a q-in-q outer vlan (vid 20)
\* that carries an inner vlan (vid 30).
IfPort == "dp0p1"
IfMacvlan == "dp0vrrp1"
IfVlan == "dp0p1.10"
IfOuter == "dp0p1.20"
IfInner == "dp0p1.20.30"
NoIf == "NULL"
PlIfs == {IfPort, IfMacvlan, IfVlan, IfOuter, IfInner}
IFF_UP == "IFF_UP"
IFT_ETHER == "IFT_ETHER"
IFT_L2VLAN == "IFT_L2VLAN"
IFT_MACVLAN == "IFT_MACVLAN"
ETHER_LOOKUP_ACCEPT == "ETHER_LOOKUP_ACCEPT"
ETHER_LOOKUP_LOOKUP == "ETHER_LOOKUP_LOOKUP"
ETHER_LOOKUP_FINISH == "ETHER_LOOKUP_FINISH"
if_data_zero ==
    [ifi_ipackets |-> 0, ifi_ivlan |-> 0, ifi_no_vlan |-> 0,
     ifi_no_address |-> 0, ifi_imulticast |-> 0]

if_type(ifp) ==
    IF ifp = IfPort THEN IFT_ETHER
    ELSE IF ifp = IfMacvlan THEN IFT_MACVLAN ELSE IFT_L2VLAN

qinq_outer(ifp) == ifp = IfOuter

\* ifp->if_vlantbl, NULL where the interface carries no vlans.
if_vlantbl(ifp) ==
    IF ifp = IfPort THEN [vid \in {10, 20} |-> IF vid = 10 THEN IfVlan
                                                 ELSE IfOuter]
    ELSE IF ifp = IfOuter THEN [vid \in {30} |-> IfInner]
    ELSE <<>>

if_vlan_lookup(ifp, vid) ==
    IF if_vlantbl(ifp) # <<>> /\ vid \in DOMAIN if_vlantbl(ifp)
    THEN if_vlantbl(ifp)[vid] ELSE NoIf

\* The packet context of one traversal: the counters, the interface flags,
\* how often the mbuf was freed or handed off (m_free), the interface found
\* down and the interfaces a drop was counted on.
Pl ==
    [if_data |-> pl_if_data, if_flags |-> pl_if_flags, in_ifp |-> IfPort,
     ifp |-> IfPort, m_free |-> 0, down |-> {}, counted |-> {},
     l2_pkt_type |-> "none", ret |-> "none"]

if_stat_incr(pl, ifp, ctr) == [pl EXCEPT !.if_data[ifp][ctr] = @ + 1]

if_incr_in(pl, ifp) == if_stat_incr(pl, ifp, "ifi_ipackets")

rte_pktmbuf_free(pl) == [pl EXCEPT !.m_free = @ + 1]

\* drop: and no_vlan: of vlan_lookup; ifstat is the interface of the last
\* table that was searched.
vlan_lookup_drop(pl) == [rte_pktmbuf_free(pl) EXCEPT !.ifp = NoIf]

vlan_lookup_no_vlan(pl, ifstat) ==
    vlan_lookup_drop([if_stat_incr(pl, ifstat, "ifi_no_vlan")
                        EXCEPT !.counted = @ \cup {ifstat}])

vlan_lookup_qinq(pl, ifp, pkt) ==
    Bind(if_vlan_lookup(ifp, pkt.inner_vid),
         LAMBDA inner :
            IF inner = NoIf
            THEN vlan_lookup_no_vlan(if_stat_incr(pl, ifp, "ifi_ivlan"), ifp)
            ELSE IF IFF_UP \notin pl.if_flags[inner]
            THEN vlan_lookup_drop(
                    [if_stat_incr(pl, ifp, "ifi_ivlan")
                        EXCEPT !.down = @ \cup {inner}])
            ELSE [if_incr_in(if_stat_incr(pl, ifp, "ifi_ivlan"), inner)
                    EXCEPT !.ifp = inner])

\* vlan_lookup: the vlan interface in ifp, or NULL with the mbuf consumed.
vlan_lookup(pl0, ifp0, pkt, vid) ==
    Bind(if_stat_incr(pl0, ifp0, "ifi_ivlan"),
         LAMBDA pl :
            Bind(if_vlan_lookup(ifp0, vid),
                 LAMBDA ifp :
                    IF ifp = NoIf THEN vlan_lookup_no_vlan(pl, ifp0)
                    ELSE IF IFF_UP \notin pl.if_flags[ifp]
                    THEN vlan_lookup_drop([pl EXCEPT !.down = @ \cup {ifp}])
                    ELSE IF qinq_outer(ifp)
                    THEN vlan_lookup_qinq(if_incr_in(pl, ifp), ifp, pkt)
                    ELSE [if_incr_in(pl, ifp) EXCEPT !.ifp = ifp]))

\* macvlan_input: the macvlan of the destination address when it is up;
\* otherwise NULL with the mbuf consumed.
macvlan_input(pl, ifp, pkt) ==
    IF ifp = IfPort /\ pkt.dst = "macvlan"
       /\ IFF_UP \in pl.if_flags[IfMacvlan]
    THEN [pl EXCEPT !.ifp = IfMacvlan]
    ELSE [rte_pktmbuf_free(pl) EXCEPT !.ifp = NoIf]

\* no_address: of ether_lookup_process_common.
ether_lookup_no_address(pl, ifp) ==
    [if_stat_incr(pl, ifp, "ifi_no_address")
        EXCEPT !.counted = @ \cup {ifp}, !.ret = ETHER_LOOKUP_FINISH]

\* A node that asks for the lookup successor without moving the packet to
\* the interface found.
ether_lookup_vlan_stay(pl, ifp, pkt) ==
    IF pkt.rx_vlan /\ if_type(ifp) # IFT_L2VLAN /\ pkt.vid # 0
    THEN Bind(vlan_lookup(pl, ifp, pkt, pkt.vid),
              LAMBDA r :
                IF r.ifp = NoIf
                THEN [r EXCEPT !.ret = ETHER_LOOKUP_FINISH]
                ELSE [r EXCEPT !.ret = ETHER_LOOKUP_LOOKUP])
    ELSE IF IFF_UP \notin pl.if_flags[ifp]
    THEN ether_lookup_no_address(
            [rte_pktmbuf_free(pl) EXCEPT !.down = @ \cup {ifp}], ifp)
    ELSE [pl EXCEPT !.ret = ETHER_LOOKUP_ACCEPT]

\* From the vlan tag on, with ifp the interface the address led to.
ether_lookup_vlan(pl, ifp, pkt) ==
    IF pkt.rx_vlan /\ if_type(ifp) # IFT_L2VLAN /\ pkt.vid # 0
    THEN Bind(vlan_lookup(pl, ifp, pkt, pkt.vid),
              LAMBDA r :
                IF r.ifp = NoIf
                THEN [r EXCEPT !.ret = ETHER_LOOKUP_FINISH]
                ELSE [r EXCEPT !.in_ifp = r.ifp,
                               !.ret = ETHER_LOOKUP_LOOKUP])
    ELSE IF IFF_UP \notin pl.if_flags[ifp]
    THEN ether_lookup_no_address(
            [rte_pktmbuf_free(pl) EXCEPT !.down = @ \cup {ifp}], ifp)
    ELSE [pl EXCEPT !.ret = ETHER_LOOKUP_ACCEPT]

\* ether_lookup_process_common on the interface pl.in_ifp; a feature that
\* does not pass the packet on has consumed it.
ether_lookup_process_common(pl, pkt) ==
    Bind(pl.in_ifp,
         LAMBDA ifp :
            IF pkt.feat_finish = ifp
            THEN [rte_pktmbuf_free(pl) EXCEPT !.ret = ETHER_LOOKUP_FINISH]
            ELSE IF pkt.dst \in {"multicast", "broadcast"}
            THEN ether_lookup_vlan(
                    [if_stat_incr(pl, ifp, "ifi_imulticast") EXCEPT
                        !.l2_pkt_type =
                            IF pkt.dst = "broadcast" THEN "L2_PKT_BROADCAST"
                            ELSE "L2_PKT_MULTICAST"],
                    ifp, pkt)
            ELSE IF pkt.dst # "own"
                    /\ (~pkt.rx_vlan \/ if_vlantbl(ifp) = <<>>)
            THEN Bind(macvlan_input([pl EXCEPT
                                        !.l2_pkt_type = "L2_PKT_UNICAST"],
                                    ifp, pkt),
                      LAMBDA r :
                        IF r.ifp = NoIf
                        THEN ether_lookup_no_address(r, ifp)
                        ELSE ether_lookup_vlan(
                                if_incr_in([r EXCEPT !.in_ifp = r.ifp],
                                           r.ifp),
                                r.ifp, pkt))
            ELSE ether_lookup_vlan([pl EXCEPT
                                        !.l2_pkt_type = "L2_PKT_UNICAST"],
                                   ifp, pkt))

\* The graph walker: "lookup" enters the node again on the interface found;
\* any other successor leaves the node.  The walk is followed for MaxWalk
\* re-entries.
RECURSIVE ether_lookup_walk_rec(_, _, _, _)
ether_lookup_walk_rec(pl, pkt, rets, fuel) ==
    Bind(ether_lookup_process_common(pl, pkt),
         LAMBDA r :
            IF r.ret = ETHER_LOOKUP_LOOKUP /\ fuel > 0
            THEN ether_lookup_walk_rec(
                    r, pkt,
                    Append(rets, [ret |-> r.ret, m_free |-> r.m_free]),
                    fuel - 1)
            ELSE [pl |-> r,
                  rets |-> Append(rets, [ret |-> r.ret,
                                         m_free |-> r.m_free])])

ether_lookup_walk(pl, pkt) == ether_lookup_walk_rec(pl, pkt, <<>>, MaxWalk)

if_data_sum(d) ==
    d.ifi_ipackets + d.ifi_ivlan + d.ifi_no_vlan + d.ifi_no_address
    + d.ifi_imulticast

if_stat_sum(if_data) ==
    if_data_sum(if_data[IfPort]) + if_data_sum(if_data[IfMacvlan])
    + if_data_sum(if_data[IfVlan]) + if_data_sum(if_data[IfOuter])
    + if_data_sum(if_data[IfInner])

Packets ==
    [dst : {"own", "macvlan", "unknown", "multicast", "broadcast"},
     rx_vlan : BOOLEAN, vid : {0, 10, 20, 40}, inner_vid : {30, 40},
     feat_finish : {NoIf, IfPort, IfVlan}]

\* A packet arrives on the port and walks the node.
EtherLookup ==
    \E pkt \in Packets :
        /\ pkt.rx_vlan \/ pkt.vid = 0
        /\ pkt.vid = 20 \/ pkt.inner_vid = 30
        /\ \E r \in {ether_lookup_walk(Pl, pkt)} :
            /\ ~aborted
            /\ if_stat_sum(r.pl.if_data) <= MaxIfStat
            /\ pl_if_data' = r.pl.if_data
            /\ trace' = [op |-> "ether_lookup", pkt |-> pkt, rets |-> r.rets,
                         in_ifp |-> r.pl.in_ifp, down |-> r.pl.down,
                         counted |-> r.pl.counted]
            /\ UNCHANGED <<route_vars, cfg_vars, nl_vars, con_vars, more_vars,
                           pl_if_flags, aborted>>

\* An interface is set up or down.
PlIfFlags ==
    \E ifp \in PlIfs :
        /\ ~aborted
        /\ pl_if_flags' = [pl_if_flags EXCEPT ![ifp] =
                IF IFF_UP \in @ THEN @ \ {IFF_UP} ELSE @ \cup {IFF_UP}]
        /\ trace' = [op |-> "if_flags", ifp |-> ifp]
        /\ UNCHANGED <<route_vars, cfg_vars, nl_vars, con_vars, more_vars,
                       pl_if_data,
                       aborted>>

\* =================================================== vhost update events
VhostNames == {"dp0vhost0", "dp0vhost1"}
VhostIfps == VhostNames \cup {"dp0p1", NoIf}
VhostThreads == {"master", "worker"}

\* is_vhost: the port of the interface is an eth_vhost device.
is_vhost(ifp) == ifp \in VhostNames

\* The queue and the handler, as one call sees them.
Vh == [list |-> vhost_ev_list, pc |-> vh_handler.pc, ev |-> vh_handler.ev]

\* A search that also finds the event the handler has taken off the queue
\* and not freed yet.
vhost_ev_queued_or_taken(vh, name) ==
    \/ \E i \in 1 .. Len(vh.list) : vh.list[i] = name
    \/ vh.ev = name

\* TAILQ_FOREACH with streq: an event of the name is on the queue.
vhost_ev_queued(vh, name) ==
    \E i \in 1 .. Len(vh.list) : vh.list[i] = name

\* vhost_set_update_event up to the release of the lock.  asked says that
\* the call leaves an update for the name to be done; set_fd that the call
\* goes on to set the event fd.
vhost_set_update_event(vh, ifp, nomem) ==
    IF ifp = NoIf \/ ~is_vhost(ifp)
    THEN [list |-> vh.list, rc |-> 0, asked |-> FALSE, set_fd |-> FALSE]
    ELSE IF vhost_ev_queued(vh, ifp)
    THEN [list |-> vh.list, rc |-> 0, asked |-> TRUE, set_fd |-> FALSE]
    ELSE IF nomem
    THEN [list |-> vh.list, rc |-> -1, asked |-> FALSE, set_fd |-> FALSE]
    ELSE [list |-> Append(vh.list, ifp), rc |-> 0, asked |-> TRUE,
          set_fd |-> TRUE]

\* A thread calls vhost_set_update_event and runs it to where the lock is
\* released.
VhostSetUpdateEvent ==
    \E t \in VhostThreads, ifp \in VhostIfps, nomem \in BOOLEAN :
        \E r \in {vhost_set_update_event(Vh, ifp, nomem)} :
            /\ ~aborted
            /\ vh_prod[t] = "idle"
            /\ vhost_ev_list' = r.list
            /\ vh_prod' = [vh_prod EXCEPT ![t] =
                            IF r.set_fd THEN "set_fd" ELSE "idle"]
            /\ vh_owed' = IF r.asked THEN vh_owed \cup {ifp} ELSE vh_owed
            /\ trace' = [op |-> "vhost_set_update_event", ifp |-> ifp,
                         rc |-> r.rc, queued |-> r.set_fd,
                         asked |-> r.asked]
            /\ UNCHANGED <<route_vars, cfg_vars, nl_vars, con_vars, pl_vars,
                           rd_vars, npf_vars, vhost_ev_fd, vh_handler, aborted>>

\* set_master_worker_vhost_event_fd: the event fd of the master thread
\* becomes readable.
set_master_worker_vhost_event_fd(fd) == TRUE

VhostSetFd(t) ==
    /\ ~aborted
    /\ vh_prod[t] = "set_fd"
    /\ vhost_ev_fd' = set_master_worker_vhost_event_fd(vhost_ev_fd)
    /\ vh_prod' = [vh_prod EXCEPT ![t] = "idle"]
    /\ trace' = [op |-> "set_master_worker_vhost_event_fd"]
    /\ UNCHANGED <<route_vars, cfg_vars, nl_vars, con_vars, pl_vars, rd_vars, npf_vars,
                   vhost_ev_list, vh_handler, vh_owed, aborted>>

\* The master thread finds the event fd readable, reads it and calls
\* vhost_event_handler.
VhostWake ==
    /\ ~aborted
    /\ vh_handler.pc = "idle"
    /\ vhost_ev_fd
    /\ vhost_ev_fd' = FALSE
    /\ vh_handler' = [vh_handler EXCEPT !.pc = "loop"]
    /\ trace' = [op |-> "vhost_event_handler"]
    /\ UNCHANGED <<route_vars, cfg_vars, nl_vars, con_vars, pl_vars, rd_vars, npf_vars,
                   vhost_ev_list, vh_prod, vh_owed, aborted>>

\* The loop test of vhost_event_handler, under the lock: the first event
\* leaves the queue, or the handler returns.
vhost_event_handler_take(vh) ==
    IF vh.list = <<>>
    THEN [vh EXCEPT !.pc = "idle"]
    ELSE [vh EXCEPT !.pc = "process", !.ev = Head(vh.list),
                    !.list = Tail(vh.list)]

VhostTake ==
    \E vh \in {vhost_event_handler_take(Vh)} :
        /\ ~aborted
        /\ vh_handler.pc = "loop"
        /\ vhost_ev_list' = vh.list
        /\ vh_handler' = [pc |-> vh.pc, ev |-> vh.ev]
        /\ trace' = [op |-> "TAILQ_REMOVE", ev |-> vh.ev]
        /\ UNCHANGED <<route_vars, cfg_vars, nl_vars, con_vars, pl_vars,
                       rd_vars, npf_vars, vhost_ev_fd, vh_prod, vh_owed, aborted>>

\* vhost_link_update_process(ev->vhost_name), outside the lock: the link
\* state of the name is worked out and given to the guest.
VhostProcess ==
    /\ ~aborted
    /\ vh_handler.pc = "process"
    /\ vh_owed' = vh_owed \ {vh_handler.ev}
    /\ vh_handler' = [vh_handler EXCEPT !.pc = "free"]
    /\ trace' = [op |-> "vhost_link_update_process", ev |-> vh_handler.ev]
    /\ UNCHANGED <<route_vars, cfg_vars, nl_vars, con_vars, pl_vars, rd_vars, npf_vars,
                   vhost_ev_list, vhost_ev_fd, vh_prod, aborted>>

\* free(ev), then the lock is taken for the next loop test.
VhostFree ==
    /\ ~aborted
    /\ vh_handler.pc = "free"
    /\ vh_handler' = [pc |-> "loop", ev |-> NoIf]
    /\ trace' = [op |-> "free", ev |-> vh_handler.ev]
    /\ UNCHANGED <<route_vars, cfg_vars, nl_vars, con_vars, pl_vars, rd_vars, npf_vars,
                   vhost_ev_list, vhost_ev_fd, vh_prod, vh_owed, aborted>>

\* ==================================================== npf session state
NpfSessions == 1 .. MaxSessions
NpfCores == 0 .. MaxLcore
NPF_PROTO_IDX_TCP == "tcp"
NPF_PROTO_IDX_ICMP == "icmp"
NpfProtos == {NPF_PROTO_IDX_TCP, NPF_PROTO_IDX_ICMP}
NpfGenericProtos == NpfProtos \ {NPF_PROTO_IDX_TCP}

NPF_ANY_SESSION_NONE == "NONE"
NPF_ANY_SESSION_NEW == "NEW"
NPF_ANY_SESSION_ESTABLISHED == "ESTABLISHED"
NPF_ANY_SESSION_TERMINATING == "TERMINATING"
NPF_ANY_SESSION_CLOSED == "CLOSED"
NpfGenericStates ==
    {NPF_ANY_SESSION_NONE, NPF_ANY_SESSION_NEW, NPF_ANY_SESSION_ESTABLISHED,
     NPF_ANY_SESSION_TERMINATING, NPF_ANY_SESSION_CLOSED}

\* The TCP states the model follows, and the two answers of npf_state_tcp
\* that are no state.
NPF_TCPS_NONE == "NONE"
NPF_TCPS_SYN_SENT == "SYN-SENT"
NPF_TCPS_ESTABLISHED == "ESTABLISHED"
NPF_TCPS_CLOSED == "CLOSED"
NPF_TCPS_OK == "OK"
NPF_TCPS_ERR == "ERR"
NpfTcpStates ==
    {NPF_TCPS_NONE, NPF_TCPS_SYN_SENT, NPF_TCPS_ESTABLISHED, NPF_TCPS_CLOSED}

NPF_FLOW_FORW == "forw"
NPF_FLOW_BACK == "back"

\* A session slot that holds no session; closed says that
\* npf_state_set_closed_state has run on the session.
npf_sess_none ==
    [live |-> FALSE, proto |-> NPF_PROTO_IDX_ICMP,
     nst_state |-> NPF_ANY_SESSION_NONE, closed |-> FALSE]

\* One core's struct npf_state_stats after zmalloc.  A counter c of 2^31 or
\* more is held as c - 2^32, so that 0 - 1 is -1 here.
npf_state_stats_zero ==
    [ss_tcp_ct |-> [s \in NpfTcpStates |-> 0],
     ss_ct |-> [p \in NpfGenericProtos |-> [s \in NpfGenericStates |-> 0]]]

\* The session table, the counters and the packet's core, as one call sees
\* them.
Npf ==
    [sess |-> npf_sess, stats |-> npf_stats, strict |-> npf_state_icmp_strict,
     state_changed |-> FALSE, ret |-> TRUE]

stats_inc_tcp(n, core, a) == [n EXCEPT !.stats[core].ss_tcp_ct[a] = @ + 1]
stats_dec_tcp(n, core, a) == [n EXCEPT !.stats[core].ss_tcp_ct[a] = @ - 1]
stats_inc(n, core, a, b) == [n EXCEPT !.stats[core].ss_ct[a][b] = @ + 1]
stats_dec(n, core, a, b) == [n EXCEPT !.stats[core].ss_ct[a][b] = @ - 1]

\* npf_generic_fsm[state][di].  The table has rows for NONE, NEW and
\* ESTABLISHED; what it does not name is zero, which is NONE.
npf_generic_fsm(state, di) ==
    IF state = NPF_ANY_SESSION_NONE
    THEN IF di = NPF_FLOW_FORW THEN NPF_ANY_SESSION_NEW
         ELSE NPF_ANY_SESSION_NONE
    ELSE IF state = NPF_ANY_SESSION_NEW
    THEN IF di = NPF_FLOW_FORW THEN NPF_ANY_SESSION_NEW
         ELSE NPF_ANY_SESSION_ESTABLISHED
    ELSE IF state = NPF_ANY_SESSION_ESTABLISHED
    THEN NPF_ANY_SESSION_ESTABLISHED
    ELSE NPF_ANY_SESSION_NONE

\* npf_state_init
npf_state_init(n, core, id, proto_idx) ==
    IF proto_idx = NPF_PROTO_IDX_TCP
    THEN stats_inc_tcp(
            [n EXCEPT !.sess[id] = [live |-> TRUE, proto |-> proto_idx,
                                    nst_state |-> NPF_TCPS_NONE,
                                    closed |-> FALSE]],
            core, NPF_TCPS_NONE)
    ELSE stats_inc(
            [n EXCEPT !.sess[id] = [live |-> TRUE, proto |-> proto_idx,
                                    nst_state |-> NPF_ANY_SESSION_NONE,
                                    closed |-> FALSE]],
            core, proto_idx, NPF_ANY_SESSION_NONE)

\* A destroy that takes the session out of the state it started in.
npf_state_destroy_initial(n, core, id) ==
    Bind(IF n.sess[id].proto = NPF_PROTO_IDX_TCP
         THEN stats_dec_tcp(n, core, NPF_TCPS_NONE)
         ELSE stats_dec(n, core, n.sess[id].proto, NPF_ANY_SESSION_NONE),
         LAMBDA n1 : [n1 EXCEPT !.sess[id] = npf_sess_none])

\* npf_state_destroy
npf_state_destroy(n, core, id) ==
    Bind(IF n.sess[id].proto = NPF_PROTO_IDX_TCP
         THEN stats_dec_tcp(n, core, n.sess[id].nst_state)
         ELSE stats_dec(n, core, n.sess[id].proto, n.sess[id].nst_state),
         LAMBDA n1 : [n1 EXCEPT !.sess[id] = npf_sess_none])

npf_state_generic_state_set(n, core, id, state) ==
    IF n.sess[id].nst_state # state
    THEN [stats_inc(stats_dec(n, core, n.sess[id].proto,
                              n.sess[id].nst_state),
                    core, n.sess[id].proto, state)
            EXCEPT !.sess[id].nst_state = state, !.state_changed = TRUE]
    ELSE n

npf_state_tcp_state_set(n, core, id, state) ==
    IF state # NPF_TCPS_OK /\ n.sess[id].nst_state # state
    THEN [stats_inc_tcp(stats_dec_tcp(n, core, n.sess[id].nst_state),
                        core, state)
            EXCEPT !.sess[id].nst_state = state, !.state_changed = TRUE]
    ELSE n

\* The answers npf_state_tcp may give for a session in nst_state: a state,
\* NPF_TCPS_OK or NPF_TCPS_ERR; a CLOSED session is taken to be kept CLOSED.
npf_state_tcp(nst_state) ==
    IF nst_state = NPF_TCPS_CLOSED
    THEN {NPF_TCPS_CLOSED, NPF_TCPS_OK, NPF_TCPS_ERR}
    ELSE NpfTcpStates \cup {NPF_TCPS_OK, NPF_TCPS_ERR}

\* npf_state_inspect, under nst_lock.  tcp is the answer of npf_state_tcp,
\* echo_req that of npf_iscached(npc, NPC_ICMP_ECHO_REQ).
npf_state_inspect(n, core, id, forw, tcp, echo_req) ==
    Bind(IF forw THEN NPF_FLOW_FORW ELSE NPF_FLOW_BACK, LAMBDA di :
        IF n.sess[id].proto = NPF_PROTO_IDX_TCP
        THEN IF tcp = NPF_TCPS_ERR THEN [n EXCEPT !.ret = FALSE]
             ELSE npf_state_tcp_state_set(n, core, id, tcp)
        ELSE IF /\ n.sess[id].proto = NPF_PROTO_IDX_ICMP
                /\ n.strict \/ n.sess[id].nst_state = NPF_ANY_SESSION_NONE
                /\ forw # echo_req
        THEN [n EXCEPT !.ret = FALSE]
        ELSE npf_state_generic_state_set(
                n, core, id, npf_generic_fsm(n.sess[id].nst_state, di)))

\* npf_state_set_closed_state, under nst_lock whether the call takes it
\* (lock) or its caller holds it.
npf_state_set_closed_state(n, core, id, lock) ==
    Bind([n EXCEPT !.sess[id].closed = TRUE], LAMBDA n1 :
        IF n.sess[id].proto = NPF_PROTO_IDX_TCP
        THEN npf_state_tcp_state_set(n1, core, id, NPF_TCPS_CLOSED)
        ELSE npf_state_generic_state_set(n1, core, id,
                                         NPF_ANY_SESSION_CLOSED))

\* The "temporary fixup" at the head of npf_state_stats_json.
npf_state_stats_fixup(stats) ==
    [c \in DOMAIN stats |->
        [ss_tcp_ct |->
            [stats[c].ss_tcp_ct EXCEPT
                ![NPF_TCPS_CLOSED] = @ + stats[c].ss_tcp_ct[NPF_TCPS_NONE]],
         ss_ct |->
            [p \in NpfGenericProtos |->
                [stats[c].ss_ct[p] EXCEPT
                    ![NPF_ANY_SESSION_CLOSED] =
                        @ + stats[c].ss_ct[p][NPF_ANY_SESSION_NONE]]]]]

\* tmp += stats[i]... over the cores.
RECURSIVE npf_stats_sum(_, _, _, _)
npf_stats_sum(stats, cores, proto, state) ==
    IF cores = {} THEN 0
    ELSE LET c == CHOOSE x \in cores : TRUE
         IN  (IF proto = NPF_PROTO_IDX_TCP THEN stats[c].ss_tcp_ct[state]
              ELSE stats[c].ss_ct[proto][state])
             + npf_stats_sum(stats, cores \ {c}, proto, state)

NpfStatesOf(proto) ==
    IF proto = NPF_PROTO_IDX_TCP THEN NpfTcpStates ELSE NpfGenericStates

\* What npf_state_stats_json writes: a count per protocol and state.
npf_state_stats_out(stats) ==
    [p \in NpfProtos |->
        [s \in NpfStatesOf(p) |-> npf_stats_sum(stats, NpfCores, p, s)]]

\* npf_state_stats_json
npf_state_stats_json(n) ==
    Bind([n EXCEPT !.stats = npf_state_stats_fixup(@)], LAMBDA n1 :
        [n |-> n1, json |-> npf_state_stats_out(n1.stats)])

\* The counters of one core, one by one, and the sum of their sizes.
NpfCells == {<<p, s>> \in NpfProtos \X (NpfTcpStates \cup NpfGenericStates) :
                s \in NpfStatesOf(p)}

npf_ct(ss, cell) ==
    IF cell[1] = NPF_PROTO_IDX_TCP THEN ss.ss_tcp_ct[cell[2]]
    ELSE ss.ss_ct[cell[1]][cell[2]]

RECURSIVE npf_ct_size(_, _)
npf_ct_size(ss, cells) ==
    IF cells = {} THEN 0
    ELSE LET c == CHOOSE x \in cells : TRUE
         IN  (IF npf_ct(ss, c) < 0 THEN -npf_ct(ss, c) ELSE npf_ct(ss, c))
             + npf_ct_size(ss, cells \ {c})

\* The call has returned with the sessions and counters as n has them.
CommitNpf(n, tr) ==
    /\ \A c \in NpfCores : npf_ct_size(n.stats[c], NpfCells) <= MaxNpfCt
    /\ npf_sess' = n.sess
    /\ npf_stats' = n.stats
    /\ trace' = tr
    /\ UNCHANGED <<route_vars, cfg_vars, nl_vars, con_vars, pl_vars, rd_vars,
                   vh_vars, npf_state_icmp_strict, aborted>>

NpfStateInit ==
    \E core \in NpfCores, id \in NpfSessions, proto \in NpfProtos :
        /\ ~aborted
        /\ ~npf_sess[id].live
        /\ CommitNpf(npf_state_init(Npf, core, id, proto),
                     [op |-> "npf_state_init", id |-> id])

NpfStateDestroy ==
    \E core \in NpfCores, id \in NpfSessions :
        /\ ~aborted
        /\ npf_sess[id].live
        /\ CommitNpf(npf_state_destroy(Npf, core, id),
                     [op |-> "npf_state_destroy", id |-> id])

NpfStateInspect ==
    \E core \in NpfCores, id \in NpfSessions, forw \in BOOLEAN :
        \E echo_req \in IF npf_sess[id].proto = NPF_PROTO_IDX_ICMP
                         THEN BOOLEAN ELSE {FALSE},
           tcp \in IF npf_sess[id].proto = NPF_PROTO_IDX_TCP
                    THEN npf_state_tcp(npf_sess[id].nst_state)
                    ELSE {NPF_TCPS_OK} :
            \E n \in {npf_state_inspect(Npf, core, id, forw, tcp, echo_req)} :
                /\ ~aborted
                /\ npf_sess[id].live
                /\ CommitNpf(n, [op |-> "npf_state_inspect", id |-> id,
                                 ret |-> n.ret])

NpfStateSetClosed ==
    \E core \in NpfCores, id \in NpfSessions, lock \in BOOLEAN :
        \E n \in {npf_state_set_closed_state(Npf, core, id, lock)} :
            /\ ~aborted
            /\ npf_sess[id].live
            /\ CommitNpf(n, [op |-> "npf_state_set_closed_state",
                             id |-> id])

\* npf_state_set_icmp_strict
NpfSetIcmpStrict ==
    \E value \in BOOLEAN :
        /\ ~aborted
        /\ npf_state_icmp_strict # value
        /\ npf_state_icmp_strict' = value
        /\ trace' = [op |-> "npf_state_set_icmp_strict"]
        /\ UNCHANGED <<route_vars, cfg_vars, nl_vars, con_vars, pl_vars,
                       rd_vars, vh_vars, npf_sess, npf_stats, aborted>>

NpfStateStatsJson ==
    \E r \in {npf_state_stats_json(Npf)} :
        /\ ~aborted
        /\ CommitNpf(r.n, [op |-> "npf_state_stats_json", json |-> r.json,
                           before |-> npf_stats])

\* ===================================================== forwarding thread
\* rcu_read_lock on a forwarding thread.
ReaderLock ==
    /\ ~aborted
    /\ ~rd_active
    /\ rd_active' = TRUE
    /\ rd_ptr' = NULL
    /\ trace' = [op |-> "rcu_read_lock"]
    /\ UNCHANGED <<route_vars, cfg_vars, nl_vars, con_vars, pl_vars, vh_vars, npf_vars,
                   aborted>>

\* rcu_dereference(nh_tbl.entry[nh_idx]) inside the section.
ReaderLoad ==
    \E nh_idx \in Slots :
        /\ ~aborted
        /\ rd_active
        /\ rd_ptr' = nh_entry[nh_idx]
        /\ trace' = [op |-> "rcu_dereference", idx |-> nh_idx]
        /\ UNCHANGED <<route_vars, cfg_vars, nl_vars, con_vars, pl_vars,
                       vh_vars, npf_vars, rd_active, aborted>>

\* rcu_read_unlock: the grace period of what was waiting ends, and
\* nexthop_destroy frees it.
ReaderUnlock ==
    /\ ~aborted
    /\ rd_active
    /\ rd_active' = FALSE
    /\ rd_ptr' = NULL
    /\ heap' = [q \in DOMAIN heap \ rcu_pending |-> heap[q]]
    /\ rcu_pending' = {}
    /\ trace' = [op |-> "rcu_read_unlock", freed |-> rcu_pending]
    /\ UNCHANGED <<nh_entry, nh_in_use, nh_rover, nexthop_hash, rt_table,
                   lltable, hw_nh, hw_rt, held, route_sw_stats,
                   route_hw_stats, vrf_ref,
                   cfg_vars, nl_vars, con_vars, pl_vars, vh_vars, npf_vars, aborted>>

\* How far the bucket of state s is from the number of rules, of every
\* table, that are recorded in that state.
hw_stats_drift(st, s) ==
    st.hw_stats[s]
        - Cardinality({<<t, r>> \in UNION {{t} \X st.lpm[t] :
                                            t \in DOMAIN st.lpm} :
                        r.state = s})

\* The handler has returned with the tables as st has them (deferred frees
\* have run).  A handler that died leaves nothing behind.
Commit(st, tr) ==
    /\ UNCHANGED <<cfg_vars, nl_vars, con_vars, pl_vars, more_vars>>
    /\ IF st.aborted
       THEN /\ aborted' = TRUE
            /\ trace' = [op |-> tr.op]
            /\ UNCHANGED <<nh_entry, nh_in_use, nh_rover, nexthop_hash,
                           heap, rt_table, lltable, hw_nh, hw_rt,
                           rcu_pending,
                           route_sw_stats, route_hw_stats,
                           vrf_ref>>
       ELSE /\ \A p \in DOMAIN st.heap : st.heap[p].refcount <= MaxRef
            /\ \A s \in PdStates : st.sw_stats[s] \in 0 .. MaxStat
            /\ st.sw_stats[PD_OBJ_STATE_NO_RESOURCE] <= MaxFail
            /\ st.sw_stats[PD_OBJ_STATE_ERROR] <= MaxFail
            /\ st.vrf_ref \in -MaxVrfRef .. MaxVrfRef
            /\ \A s \in PdStates :
                /\ st.hw_stats[s] <= MaxStat
                /\ hw_stats_drift(st, s) \in -MaxUnder .. MaxOver
            /\ route_sw_stats' = st.sw_stats
            /\ route_hw_stats' = st.hw_stats
            /\ vrf_ref' = st.vrf_ref
            /\ nh_entry' = st.entry
            /\ nh_in_use' = st.in_use
            /\ nh_rover' = st.rover
            /\ nexthop_hash' = st.hash
            /\ heap' = st.heap
            /\ rt_table' = st.lpm
            /\ lltable' = st.lltable
            /\ hw_nh' = st.hw_nh
            /\ hw_rt' = st.hw_rt
            /\ rcu_pending' = st.pending
            /\ trace' = [swaps |-> st.swaps, fal_bad |-> st.fal_bad] @@ tr
            /\ aborted' = FALSE

Init ==
    \E st \in {rcu_barrier(route_init(nexthop_tbl_init(nh_tbl_zero).st))} :
        /\ nh_entry = st.entry
        /\ nh_in_use = st.in_use
        /\ nh_rover = st.rover
        /\ nexthop_hash = st.hash
        /\ heap = st.heap
        /\ rt_table = st.lpm
        /\ lltable = {}
        /\ hw_nh = st.hw_nh
        /\ hw_rt = st.hw_rt
        /\ rcu_pending = {}
        /\ rd_active = FALSE
        /\ rd_ptr = NULL
        /\ vhost_ev_list = <<>>
        /\ vhost_ev_fd = FALSE
        /\ vh_handler = [pc |-> "idle", ev |-> NoIf]
        /\ vh_prod = [t \in VhostThreads |-> "idle"]
        /\ vh_owed = {}
        /\ npf_sess = [id \in NpfSessions |-> npf_sess_none]
        /\ npf_stats = [c \in NpfCores |-> npf_state_stats_zero]
        /\ npf_state_icmp_strict = FALSE
        /\ route_sw_stats = st.sw_stats
        /\ route_hw_stats = st.hw_stats
        /\ vrf_ref = st.vrf_ref
        /\ dp_ops = [i \in OpsSlots |-> NoOps]
        /\ speed_cfg_list = cfg_if_list_null
        /\ vhost_cfg_list = cfg_if_list_null
        /\ poe_cfg_list = cfg_if_list_null
        /\ breakout_cfg_list = cfg_if_list_null
        /\ ifnet = {}
        /\ if_cfg = [n \in IfNames |-> if_cfg_zero]
        /\ missed_cache = {}
        /\ missed_stats = missed_stats_zero
        /\ con_rcu = [online |-> FALSE, nesting |-> 0]
        /\ cmd_pair = <<>>
        /\ dp_config = {}
        /\ reset_answered = FALSE
        /\ pl_if_flags = [i \in PlIfs |-> {IFF_UP}]
        /\ pl_if_data = [i \in PlIfs |-> if_data_zero]
        /\ held = [i \in Slots |-> 0]
        /\ trace = [op |-> "init"]
        /\ aborted = FALSE

\* ------------------------------------------------------------- actions
RtInsert(pfxs, scopes, protos, hopss, fails, frcs) ==
    \E pfx \in pfxs, scope \in scopes, proto \in protos, hops \in hopss,
       replace \in BOOLEAN, fail \in fails, frc \in frcs, g \in Garbage :
        \E r \in {rt_insert(Env(fail, frc, g), pfx.ip, pfx.depth,
                            RT_TABLE_MAIN, scope, proto, hops, replace)} :
            /\ ~aborted
            /\ Commit(rcu_barrier(r.st),
                      [op |-> "rt_insert", rc |-> r.rc, lpm_rc |-> r.lpm_rc,
                       add_rc |-> r.add_rc,
                       fal_rc |-> frc, ip |-> pfx.ip, depth |-> pfx.depth,
                       scope |-> scope, idx |-> r.idx, replace |-> replace,
                       mutex_rel |-> r.st.mutex_rel])
            /\ UNCHANGED held

RtDelete(pfxs, scopes) ==
    \E pfx \in pfxs, scope \in scopes, g \in Garbage :
        \E r \in {rt_delete(Env("none", 0, g), pfx.ip, pfx.depth,
                            RT_TABLE_MAIN, scope)} :
            /\ ~aborted
            /\ Commit(rcu_barrier(r.st),
                      [op |-> "rt_delete", rc |-> r.rc, ip |-> pfx.ip,
                       depth |-> pfx.depth, scope |-> scope,
                       mutex_rel |-> r.st.mutex_rel])
            /\ UNCHANGED held

RtFlush ==
    \E g \in Garbage :
        /\ ~aborted
        /\ Commit(rcu_barrier(rt_flush(Env("none", 0, g))),
                  [op |-> "rt_flush", rc |-> 0])
        /\ UNCHANGED held

IfPurge ==
    \E ifp \in Ifps, g \in Garbage :
        /\ ~aborted
        /\ Commit(rcu_barrier(rt_if_purge(Env("none", 0, g), ifp)),
                  [op |-> "rt_if_purge", rc |-> 0])
        /\ UNCHANGED held

IfPuntToSlowpath ==
    \E ifp \in Ifps, g \in Garbage :
        /\ ~aborted
        /\ Commit(rcu_barrier(rt_if_punt_to_slowpath(Env("none", 0, g), ifp)),
                  [op |-> "rt_if_punt_to_slowpath", rc |-> 0])
        /\ UNCHANGED held

IfHandleInDataplane ==
    \E ifp \in Ifps, g \in Garbage :
        /\ ~aborted
        /\ Commit(rcu_barrier(
                    rt_if_handle_in_dataplane(Env("none", 0, g), ifp)),
                  [op |-> "rt_if_handle_in_dataplane", rc |-> 0])
        /\ UNCHANGED held

\* The entry a new neighbour gets: the lowest generation of the address
\* that no next hop points to any more.
NewLle(ifp, addr) ==
    {<<ifp, addr, n>> : n \in
        {m \in 0 .. MaxGen :
            /\ <<ifp, addr, m>> \notin lle_refs(heap)
            /\ \A k \in 0 .. (m - 1) : <<ifp, addr, k>> \in lle_refs(heap)}}

\* A neighbour is resolved: the entry is filed, then routing is told.
NeighAdd ==
    \E ifp \in Ifps, addr \in NeighAddrs, g \in Garbage :
        \E lle \in NewLle(ifp, addr) :
            /\ ~aborted
            /\ \A l \in lltable : l[1] # ifp \/ l[2] # addr
            /\ Commit(rcu_barrier(routing_insert_arp_safe(
                        [Env("none", 0, g) EXCEPT !.lltable = @ \cup {lle}],
                        lle, TRUE)),
                      [op |-> "routing_insert_arp_safe", rc |-> 0,
                       lle |-> lle])
            /\ UNCHANGED held

\* A neighbour goes away: routing is told, then the entry is freed.
NeighDel ==
    \E lle \in lltable, g \in Garbage :
        \E st \in {routing_remove_arp_safe(Env("none", 0, g), lle)} :
            /\ ~aborted
            /\ Commit(rcu_barrier([st EXCEPT !.lltable = @ \ {lle}]),
                      [op |-> "routing_remove_arp_safe", rc |-> 0,
                       lle |-> lle])
            /\ UNCHANGED held

\* A direct client of the pool takes a reference ...
PoolIntern(protos, hopss, fails) ==
    \E proto \in protos, hops \in hopss, fail \in fails, g \in Garbage :
        \E r \in {nexthop_new(Env(fail, 0, g), hops, proto)} :
            /\ ~aborted
            /\ Commit(rcu_barrier(r.st),
                      [op |-> "nexthop_new", rc |-> r.rc, idx |-> r.slot,
                       proto |-> proto, hops |-> hops])
            /\ held' = IF r.rc = 0 THEN [held EXCEPT ![r.slot] = @ + 1]
                       ELSE held

\* ... and gives one back.
PoolRelease ==
    \E idx \in Slots, g \in Garbage :
        /\ ~aborted
        /\ held[idx] > 0
        /\ Commit(rcu_barrier(nexthop_put(Env("none", 0, g), idx)),
                  [op |-> "nexthop_put", rc |-> 0, idx |-> idx])
        /\ held' = [held EXCEPT ![idx] = @ - 1]

\* ------------------------------------------------------ specifications
SubnetPrefix == {[ip |-> 4, depth |-> 2]}
ConnectedHops == {<<next_hop(1, 0, {})>>}
GatewayHops == {<<next_hop(1, 5, {RTF_GATEWAY})>>}

\* Routes of one prefix at two scopes, with every failure of the insert.
Next ==
    \/ RtInsert(SubnetPrefix, Scopes, {RTPROT_UNSPEC}, ConnectedHops,
                Fails, {0})
    \/ RtDelete(SubnetPrefix, Scopes)
    \/ RtFlush
    \/ IfPurge

Spec == Init /\ [][Next]_vars

\* Routes and neighbours: a connected subnet and a host inside it.
NextArp ==
    \/ RtInsert(Prefixes, {RT_SCOPE_UNIVERSE}, {RTPROT_UNSPEC},
                ConnectedHops, {"none"}, {0})
    \/ RtDelete(Prefixes, {RT_SCOPE_UNIVERSE})
    \/ NeighAdd
    \/ NeighDel

SpecArp == Init /\ [][NextArp]_vars

\* Routes and the slow path switch of their interface.
NextIf ==
    \/ RtInsert(SubnetPrefix, Scopes, {RTPROT_UNSPEC}, ConnectedHops,
                {"none"}, {0})
    \/ RtDelete(SubnetPrefix, Scopes)
    \/ IfPuntToSlowpath
    \/ IfHandleInDataplane

SpecIf == Init /\ [][NextIf]_vars

\* The pool under a direct client, with neighbours coming and going.
NextPool ==
    \/ PoolIntern(Protos, ConnectedHops \cup GatewayHops, {"none", "nomem"})
    \/ PoolRelease
    \/ NeighAdd
    \/ NeighDel

SpecPool == Init /\ [][NextPool]_vars

\* Routes under every answer of the FAL plugin.
NextFal ==
    \/ RtInsert(SubnetPrefix, Scopes, {RTPROT_UNSPEC}, GatewayHops,
                {"none"}, FalRcs)
    \/ RtDelete(SubnetPrefix, Scopes)

SpecFal == Init /\ [][NextFal]_vars

\* ---------------------------------------------------------------- claims
\* The holders of the group in slot idx: the rules of every table, active
\* or shadowed, that name the slot, the pool's own hold on the drop next
\* hop taken by nexthop_tbl_init, and the holds of the pool's direct clients.
RulesOf(idx) ==
    UNION {{<<t, r>> : r \in {x \in rt_table[t] : x.next_hop = idx}} :
            t \in DOMAIN rt_table}

Holders(idx) ==
    Cardinality(RulesOf(idx)) + held[idx]
        + (IF idx = nextu_blackhole THEN 1 ELSE 0)

\* C1: between operations, the refcount of every live group equals the
\* number of its holders: the rules, active or shadowed, of any table that
\* carry its index, plus the pool's startup hold on the blackhole group.
C1_RefcountEqualsHolders ==
    \A idx \in Slots :
        nh_entry[idx] # NULL =>
            heap[nh_entry[idx]].refcount = Holders(idx)

\* C2: between operations, the slot named by every rule of every table
\* holds a live group: a reference is taken when a rule is created and one
\* is dropped only for a rule that is removed.
C2_RuleSlotHoldsLiveGroup ==
    \A t \in DOMAIN rt_table : \A r \in rt_table[t] :
        /\ nh_entry[r.next_hop] # NULL
        /\ nh_entry[r.next_hop] \in DOMAIN heap
        /\ heap[nh_entry[r.next_hop]].refcount >= 1

\* C3: a group leaves its slot and is freed exactly when its refcount
\* reaches zero: every group not freed has a positive refcount, keeps its
\* index, and is the group its slot holds.
C3_SlotHoldsGroupWhileReferenced ==
    /\ \A p \in DOMAIN heap :
        /\ heap[p].refcount > 0
        /\ nh_entry[heap[p].index] = p
    /\ \A idx \in Slots :
        nh_entry[idx] # NULL =>
            nh_entry[idx] \in DOMAIN heap /\ heap[nh_entry[idx]].index = idx

\* The neighbour entries the siblings of the groups in the slots link to.
LiveLinks ==
    UNION {{heap[nh_entry[idx]].siblings[i].lle : i \in
                {j \in 1 .. Len(heap[nh_entry[idx]].siblings) :
                    heap[nh_entry[idx]].siblings[j].flags
                        \cap {RTF_NEIGH_PRESENT, RTF_NEIGH_CREATED} # {}}}
           : idx \in {s \in Slots : nh_entry[s] \in DOMAIN heap}}

\* C4: once routing_remove_arp_safe has run for a neighbour, no sibling of
\* a live group carries NEIGH_PRESENT or NEIGH_CREATED with a pointer to it.
C4_NoLinkToRemovedNeighbour ==
    (trace.op = "routing_remove_arp_safe" /\ ~aborted)
        => trace.lle \notin LiveLinks

\* C5: a group reachable from the slot array is never written: a flag of a
\* sibling (NEIGH_PRESENT, NEIGH_CREATED, DEAD, SLOWPATH) changes only on a
\* private copy that is then swapped into the slot, so the group a reader
\* got from a slot has the same siblings for as long as it is not freed.
C5_PublishedGroupImmutable ==
    [][\A idx \in Slots :
        (nh_entry[idx] # NULL /\ nh_entry[idx] \in DOMAIN heap
         /\ nh_entry[idx] \in DOMAIN heap')
            => heap'[nh_entry[idx]].siblings = heap[nh_entry[idx]].siblings
      ]_vars

\* The key a group is filed under: its protocol and its siblings with the
\* flags masked by NH_FLAGS_CMP_MASK.
KeyOf(nu) ==
    [proto |-> nu.proto,
     nh |-> [i \in 1 .. Len(nu.siblings) |->
                <<nh4_get_ifp(St, nu.siblings[i]), nu.siblings[i].gateway,
                  nu.siblings[i].flags \cap NH_FLAGS_CMP_MASK,
                  nu.siblings[i].outlabels>>]]

\* C6: a replace-in-place that deletes no sibling changes only the slot
\* pointer: the new group has the index, refcount, protocol, sibling count
\* and hardware handles of the old one, and the FAL makes and deletes no
\* next-hop object.
C6_ReplaceInPlaceKeepsGroup ==
    ("swaps" \in DOMAIN trace) =>
        \A s \in trace.swaps :
            /\ s.new.index = s.old.index
            /\ s.new.refcount = s.old.refcount
            /\ s.new.proto = s.old.proto
            /\ Len(s.new.siblings) = Len(s.old.siblings)
            /\ s.new.nhg_fal_obj = s.old.nhg_fal_obj
            /\ s.new.nh_fal_obj = s.old.nh_fal_obj
            /\ s.hw_new = s.hw_old

\* A neighbour came and a gateway next hop was linked to it in place.
C6_Witness ==
    /\ "swaps" \in DOMAIN trace
    /\ \E s \in trace.swaps :
        /\ RTF_NEIGH_PRESENT \in s.new.siblings[1].flags
        /\ RTF_NEIGH_PRESENT \notin s.old.siblings[1].flags
        /\ s.old.refcount > 1
        /\ nh_entry[s.new.index] # NULL
        /\ heap[nh_entry[s.new.index]] = s.new

\* C7: interning is canonical: no two live groups have equal keys, and a
\* lookup of the key of a live group finds that group.
C7_InterningCanonical ==
    /\ \A i, j \in Slots :
        (i # j /\ nh_entry[i] \in DOMAIN heap /\ nh_entry[j] \in DOMAIN heap)
            => KeyOf(heap[nh_entry[i]]) # KeyOf(heap[nh_entry[j]])
    /\ \A i \in Slots :
        nh_entry[i] \in DOMAIN heap =>
            nexthop_lookup(St, [nh |-> heap[nh_entry[i]].siblings,
                                size |-> Len(heap[nh_entry[i]].siblings),
                                proto |-> heap[nh_entry[i]].proto])
                = nh_entry[i]

\* C8: interning a key that is not in the pool either fails or stores the
\* new group in a slot that was empty; a live group is never overwritten.
C8_NewGroupTakesEmptySlot ==
    [][(trace'.op = "nexthop_new" /\ trace'.rc = 0 /\ ~aborted')
        => \/ nh_entry[trace'.idx] = NULL
           \/ nh_entry'[trace'.idx] = nh_entry[trace'.idx]
      ]_vars

\* The refcount of the group in every slot, 0 for an empty slot.
Refcounts ==
    [idx \in Slots |->
        IF nh_entry[idx] \in DOMAIN heap THEN heap[nh_entry[idx]].refcount
        ELSE 0]

\* C9: an rt_insert that fails leaves the rules of every table and every
\* refcount as they were, with or without replace.
C9_FailedInsertChangesNothing ==
    [][(trace'.op = "rt_insert" /\ trace'.rc < 0 /\ ~aborted')
        => rt_table' = rt_table /\ Refcounts' = Refcounts
      ]_vars

\* The last operation was an rt_insert whose lpm_add put the rule in.
LpmAddSucceeded ==
    /\ trace.op = "rt_insert"
    /\ ~aborted
    /\ trace.lpm_rc \in {LPM_SUCCESS, LPM_LOWER_SCOPE_EXISTS,
                         LPM_HIGHER_SCOPE_EXISTS}

\* The rule the last rt_insert was about.
InsertedRules ==
    {r \in rt_table[RT_TABLE_MAIN] :
        r.ip = trace.ip /\ r.depth = trace.depth /\ r.scope = trace.scope}

\* C10 as stated: whenever lpm_add succeeds, route_lpm_add returns success,
\* the rule is in the table, and the state of a rule that was offered to
\* the FAL is the FAL's answer to it (0 FULL, unsupported NOT_NEEDED, no
\* resource NO_RESOURCE, anything else ERROR).
C10_StateIsFalAnswer ==
    LpmAddSucceeded =>
        /\ trace.add_rc >= 0 /\ trace.rc = 0
        /\ InsertedRules # {}
        /\ \A r \in InsertedRules :
            IF trace.lpm_rc = LPM_HIGHER_SCOPE_EXISTS
            THEN r.state \in PdStates
            ELSE r.state = fal_state_to_pd_state(trace.fal_rc)

\* C10, amended: whenever lpm_add succeeds, route_lpm_add returns a value
\* that is not negative, the rule is in the table with the index it was
\* given, and its state is NOT_NEEDED when it is shadowed, the state of its
\* group when the hardware has not got that group in FULL, and the FAL's
\* answer to the route otherwise.
C10_StateIsShadowGroupOrFalAnswer ==
    LpmAddSucceeded =>
        /\ trace.add_rc >= 0 /\ trace.rc = 0
        /\ InsertedRules # {}
        /\ \A r \in InsertedRules :
            /\ r.next_hop = trace.idx
            /\ nh_entry[r.next_hop] \in DOMAIN heap
            /\ r.state =
                IF trace.lpm_rc = LPM_HIGHER_SCOPE_EXISTS
                THEN PD_OBJ_STATE_NOT_NEEDED
                ELSE IF heap[nh_entry[r.next_hop]].pd_state
                            # PD_OBJ_STATE_FULL
                THEN heap[nh_entry[r.next_hop]].pd_state
                ELSE fal_state_to_pd_state(trace.fal_rc)

\* The FAL refused a route whose group it had taken: the insert succeeded
\* and the rule records the refusal.
C10_Witness ==
    /\ LpmAddSucceeded
    /\ trace.fal_rc = -ENOSPC
    /\ trace.lpm_rc = LPM_LOWER_SCOPE_EXISTS
    /\ \E r \in InsertedRules :
        /\ r.state = PD_OBJ_STATE_NO_RESOURCE
        /\ heap[nh_entry[r.next_hop]].pd_state = PD_OBJ_STATE_FULL

\* ----------------------------------------- the controller names any prefix
\* The reserved loopback prefix, which a netlink message can name with its
\* scope (a uint8, so that LPM_SCOPE_PAN_DIMENSIONAL is out of its reach).
ReservedPrefixes ==
    {[ip |-> reserved_routes[i].addr,
      depth |-> reserved_routes[i].prefix_length] :
        i \in {j \in 1 .. Len(reserved_routes) :
                reserved_routes[j].scope = RT_SCOPE_HOST
                /\ reserved_routes[j].prefix_length < AddrBits}}

NextRsv ==
    \/ RtInsert(SubnetPrefix \cup ReservedPrefixes,
                {RT_SCOPE_UNIVERSE, RT_SCOPE_HOST}, {RTPROT_UNSPEC},
                ConnectedHops, {"none"}, {0})
    \/ RtDelete(SubnetPrefix \cup ReservedPrefixes,
                {RT_SCOPE_UNIVERSE, RT_SCOPE_HOST})

SpecRsv == Init /\ [][NextRsv]_vars

\* C11: the controller cannot remove a reserved route: every table has the
\* three reserved rules, with the next hops they were made with, and at
\* least three rules, whatever rt_delete and rt_insert were asked.
C11_ReservedRoutesStay ==
    \A t \in DOMAIN rt_table :
        /\ lpm_rule_count(rt_table[t]) >= Len(reserved_routes)
        /\ \A i \in 1 .. Len(reserved_routes) :
            \E r \in rt_table[t] :
                /\ r.ip = reserved_routes[i].addr
                /\ r.depth = reserved_routes[i].prefix_length
                /\ r.scope = reserved_routes[i].scope
                /\ nh_entry[r.next_hop] \in DOMAIN heap
                /\ heap[nh_entry[r.next_hop]].siblings[1].flags
                        = reserved_routes[i].flags

\* ------------------------------------------------------------ route dumps
\* What a callback of a walk writes for the rule r: the rule, or nothing.
rt_display(st, r) ==
    IF st.entry[r.next_hop] = NULL THEN {}
    ELSE IF RTF_LOCAL \in st.heap[st.entry[r.next_hop]].siblings[1].flags
    THEN {}
    ELSE IF nextu_nc_count(st.heap[st.entry[r.next_hop]]) # 0 THEN {}
    ELSE IF rt_is_reserved(r.ip, r.depth, r.scope) THEN {}
    ELSE {[ip |-> r.ip, depth |-> r.depth, scope |-> r.scope]}

rt_display_all(st, r) ==
    IF st.entry[r.next_hop] = NULL THEN {}
    ELSE {[ip |-> r.ip, depth |-> r.depth, scope |-> r.scope]}

\* rt_walk over the whole table; all is type = RT_WALK_ALL.
rt_walk(st, id, all) ==
    IF id \notin DOMAIN st.lpm THEN {}
    ELSE UNION {IF all THEN rt_display_all(st, r) ELSE rt_display(st, r) :
                    r \in st.lpm[id]}

rt_show_subset(st, r, subset) ==
    IF subset = r.state THEN rt_display_all(st, r) ELSE {}

\* route_get_pd_subset_data: rt_lpm_walk_util with rt_show_subset, which
\* passes by the tables that hold the reserved routes only.
route_get_pd_subset_data(st, subset) ==
    UNION {IF rt_lpm_is_empty(st.lpm[id]) THEN {}
           ELSE UNION {rt_show_subset(st, r, subset) : r \in st.lpm[id]} :
                id \in {t \in DOMAIN st.lpm : t <= RT_TABLE_MAIN}}

\* C12: no dump reports a reserved route: neither walk of a table nor the
\* query for the routes of one platform state writes one of the three.
C12_DumpsOmitReserved ==
    /\ \A id \in DOMAIN rt_table, all \in BOOLEAN :
        \A o \in rt_walk(St, id, all) : ~rt_is_reserved(o.ip, o.depth, o.scope)
    /\ \A subset \in PdStates :
        \A o \in route_get_pd_subset_data(St, subset) :
            ~rt_is_reserved(o.ip, o.depth, o.scope)

\* -------------------------------------------- one prefix under two scopes
\* Routes of one prefix at two scopes, through a connected hop or a gateway.
NextScope ==
    \/ RtInsert(SubnetPrefix, Scopes, {RTPROT_UNSPEC},
                ConnectedHops \cup GatewayHops, {"none"}, {0})
    \/ RtDelete(SubnetPrefix, Scopes)

SpecScope == Init /\ [][NextScope]_vars

\* The addresses whose longest prefix in L is ip/depth.
LongestMatchKeys(L, ip, depth) ==
    {k \in 0 .. (Pow2(AddrBits) - 1) :
        /\ depth_to_mask(k, depth) = ip
        /\ ~\E r \in L : r.depth > depth /\ lpm_covers(r, k, AddrBits)}

\* The rule of the highest scope among rules.
TopScope(rules) == CHOOSE r \in rules : \A o \in rules : o.scope <= r.scope

\* C13: when rt_insert has put a second rule on a prefix, the lookup of an
\* address of the prefix gives the next hop of the rule of the higher scope;
\* when rt_delete then removes that rule, the rule of the lower scope is
\* active again, unchanged, and the lookup gives its next hop.
C13_ScopePromotionRoundTrip ==
    [][/\ (~aborted' /\ trace'.op = "rt_insert" /\ trace'.rc = 0)
            => \A r1, r2 \in rt_table'[RT_TABLE_MAIN] :
                (/\ r1.ip = depth_to_mask(trace'.ip, trace'.depth)
                 /\ r2.ip = r1.ip
                 /\ r1.depth = trace'.depth /\ r2.depth = trace'.depth
                 /\ r1.scope < r2.scope
                 /\ r2 = TopScope(lpm_rules_at(rt_table'[RT_TABLE_MAIN],
                                               r1.ip, r1.depth)))
                => \A k \in LongestMatchKeys(rt_table'[RT_TABLE_MAIN],
                                             r1.ip, r1.depth) :
                    lpm_lookup(rt_table'[RT_TABLE_MAIN], k).next_hop
                        = r2.next_hop
       /\ (~aborted' /\ trace'.op = "rt_delete" /\ trace'.rc = 0)
            => \A r1, r2 \in rt_table[RT_TABLE_MAIN] :
                (/\ r2.ip = depth_to_mask(trace'.ip, trace'.depth)
                 /\ r2.depth = trace'.depth /\ r2.scope = trace'.scope
                 /\ r1.ip = r2.ip /\ r1.depth = r2.depth
                 /\ r1.scope < r2.scope
                 /\ r1 = TopScope(lpm_rules_at(rt_table[RT_TABLE_MAIN],
                                               r1.ip, r1.depth) \ {r2}))
                => /\ \E n \in rt_table'[RT_TABLE_MAIN] :
                        /\ n.ip = r1.ip /\ n.depth = r1.depth
                        /\ n.scope = r1.scope /\ n.next_hop = r1.next_hop
                        /\ lpm_is_active(rt_table'[RT_TABLE_MAIN], n)
                   /\ \A k \in LongestMatchKeys(rt_table'[RT_TABLE_MAIN],
                                                r1.ip, r1.depth) :
                        lpm_lookup(rt_table'[RT_TABLE_MAIN], k).next_hop
                            = r1.next_hop
      ]_vars

\* rt_delete has removed the rule of the higher scope of a prefix, and the
\* rule of the lower scope, which names another group, is the one left.
C13_Witness ==
    /\ ~aborted /\ trace.op = "rt_delete" /\ trace.rc = 0
    /\ \E r \in rt_table[RT_TABLE_MAIN] :
        /\ r.ip = depth_to_mask(trace.ip, trace.depth)
        /\ r.depth = trace.depth
        /\ r.scope < trace.scope
        /\ nh_entry[r.next_hop] \in DOMAIN heap
        /\ RTF_GATEWAY \in heap[nh_entry[r.next_hop]].siblings[1].flags

\* ------------------------------------------- routes and their neighbours
\* Routes of one prefix at two scopes, connected or through a gateway, with
\* the neighbours of the interface coming and going.
NextNeigh ==
    \/ RtInsert(SubnetPrefix, Scopes, {RTPROT_UNSPEC},
                ConnectedHops \cup GatewayHops, {"none"}, {0})
    \/ RtDelete(SubnetPrefix, Scopes)
    \/ NeighAdd
    \/ NeighDel

SpecNeigh == Init /\ [][NextNeigh]_vars

\* The group and the refcount of every slot in use, whatever the address
\* the group is kept at.
GroupsOf(st) ==
    {[index |-> idx, siblings |-> st.heap[st.entry[idx]].siblings,
      proto |-> st.heap[st.entry[idx]].proto,
      refcount |-> st.heap[st.entry[idx]].refcount] :
        idx \in {i \in Slots : st.entry[i] \in DOMAIN st.heap}}

\* The address has no host route, and the route that covers it has a
\* connected path through ifp.
CoverIsConnected(L, ifp, addr) ==
    /\ lpm_lookup_exact(L, addr, AddrBits) = <<>>
    /\ lpm_lookup(L, addr) # <<>>
    /\ nh_entry[lpm_lookup(L, addr).next_hop] \in DOMAIN heap
    /\ \E i \in {nextu_find_path_using_ifp(St,
                    heap[nh_entry[lpm_lookup(L, addr).next_hop]], ifp)} :
        /\ i # 0
        /\ nh_is_connected(
                heap[nh_entry[lpm_lookup(L, addr).next_hop]].siblings[i])

\* The tables after the handler that left them as st has returned.
Returned(st) ==
    [rcu_barrier(st) EXCEPT !.rcu = {}, !.swaps = {}]

ecmp_lookup(size, hash) == hash % size

\* nexthop_mp_select: the sibling (from 1) chosen for the flow, 0 for none.
nexthop_mp_select(next, size, hash, ecmp_max_path) ==
    Bind(IF ecmp_max_path # 0 /\ ecmp_max_path < size
         THEN ecmp_max_path ELSE size,
         LAMBDA sz :
            IF RTF_DEAD \in next[ecmp_lookup(sz, hash) + 1].flags
            THEN IF \A path \in 1 .. sz : RTF_DEAD \in next[path].flags
                 THEN 0
                 ELSE CHOOSE path \in 1 .. sz :
                        /\ RTF_DEAD \notin next[path].flags
                        /\ \A q \in 1 .. path - 1 : RTF_DEAD \in next[q].flags
            ELSE ecmp_lookup(sz, hash) + 1)

\* nexthop_select: the sibling (from 1) of the group of slot nh_idx that
\* the flow takes, 0 for none.
nexthop_select(st, nh_idx, hash, ecmp_max_path) ==
    IF st.entry[nh_idx] = NULL THEN 0
    ELSE IF Len(st.heap[st.entry[nh_idx]].siblings) = 1 THEN 1
    ELSE nexthop_mp_select(st.heap[st.entry[nh_idx]].siblings,
                           Len(st.heap[st.entry[nh_idx]].siblings),
                           hash, ecmp_max_path)

\* A packet is forwarded through the group of a slot.
NexthopSelect ==
    \E nh_idx \in Slots, hash \in 0 .. MaxHash,
       ecmp_max_path \in 0 .. MaxEcmpPath :
        /\ ~aborted
        /\ trace' = [op |-> "nexthop_select", idx |-> nh_idx,
                     hash |-> hash, ecmp_max_path |-> ecmp_max_path,
                     path |-> nexthop_select(St, nh_idx, hash,
                                             ecmp_max_path)]
        /\ UNCHANGED <<route_vars, cfg_vars, nl_vars, con_vars, pl_vars,
                       more_vars, aborted>>

\* A group of two paths, one of them through an interface that stays.
MultiHops == {<<next_hop(1, 0, {}), next_hop(2, 0, {})>>}

\* Routes and a direct client share groups; the interface goes away and
\* packets are forwarded.
NextSelect ==
    \/ RtInsert(SubnetPrefix, {RT_SCOPE_UNIVERSE}, {RTPROT_UNSPEC},
                ConnectedHops \cup MultiHops, {"none"}, {0})
    \/ RtDelete(SubnetPrefix, {RT_SCOPE_UNIVERSE})
    \/ PoolIntern({RTPROT_UNSPEC}, ConnectedHops, {"none"})
    \/ IfPurge
    \/ NexthopSelect

SpecSelect == Init /\ [][NextSelect]_vars

\* C16: the sibling that nexthop_select returns is never flagged DEAD, and
\* it returns none when every sibling of the group is flagged DEAD, for a
\* group of one sibling as for a group of several.
C16_SelectNeverDead ==
    (~aborted /\ trace.op = "nexthop_select" /\ nh_entry[trace.idx] # NULL)
    => /\ trace.path # 0 =>
            RTF_DEAD \notin
                heap[nh_entry[trace.idx]].siblings[trace.path].flags
       /\ (\A i \in 1 .. Len(heap[nh_entry[trace.idx]].siblings) :
                RTF_DEAD \in heap[nh_entry[trace.idx]].siblings[i].flags)
           => trace.path = 0

\* --------------------------------------- NEIGH_CREATED rules and covers
\* The host rules of the table whose group has a NEIGH_CREATED sibling.
NeighCreatedRules(L) ==
    {r \in L : /\ r.depth = AddrBits
               /\ nh_entry[r.next_hop] \in DOMAIN heap
               /\ nextu_nc_count(heap[nh_entry[r.next_hop]]) > 0}

\* The immediate cover of rule r has a connected sibling through the
\* interface of a NEIGH_CREATED sibling of r.
CoverConnectedFor(L, r) ==
    /\ lpm_find_cover(L, r.ip, r.depth) # <<>>
    /\ nh_entry[lpm_find_cover(L, r.ip, r.depth).next_hop] \in DOMAIN heap
    /\ \E c \in {heap[nh_entry[lpm_find_cover(L, r.ip, r.depth).next_hop]]} :
        \E i \in 1 .. Len(heap[nh_entry[r.next_hop]].siblings) :
            /\ nh4_is_neigh_created(heap[nh_entry[r.next_hop]].siblings[i])
            /\ \E j \in 1 .. Len(c.siblings) :
                /\ nh_is_connected(c.siblings[j])
                /\ nh4_get_ifp(St, c.siblings[j]) =
                     nh4_get_ifp(St, heap[nh_entry[r.next_hop]].siblings[i])

\* C15: when rt_insert (replacing or not) or rt_delete has returned, every
\* NEIGH_CREATED host rule of the main table has an immediate cover whose
\* group is connected on the neighbour's interface.
C15_NeighCreatedHasConnectedCover ==
    (~aborted /\ trace.op \in {"rt_insert", "rt_delete"})
    => \A r \in NeighCreatedRules(rt_table[RT_TABLE_MAIN]) :
            CoverConnectedFor(rt_table[RT_TABLE_MAIN], r)

\* ------------------------------------------------- the software counters
\* The sum of route_sw_stats over the states.
route_sw_stats_total ==
    route_sw_stats[PD_OBJ_STATE_FULL] + route_sw_stats[PD_OBJ_STATE_NOT_NEEDED]
    + route_sw_stats[PD_OBJ_STATE_NO_RESOURCE]
    + route_sw_stats[PD_OBJ_STATE_ERROR]

\* C17: after any operations on the routes the counters of FULL, NOT_NEEDED,
\* NO_RESOURCE and ERROR sum to the number of routes the table holds.
C17_CountersSumToRoutes ==
    ~aborted =>
        route_sw_stats_total = lpm_rule_count(rt_table[RT_TABLE_MAIN])

\* ------------------------------------------------ the references on the VRF
\* The table holds a route besides the reserved ones.
rt_table_has_routes(L) == lpm_rule_count(L) > Len(reserved_routes)

\* C18: the routes hold one reference on the VRF while the table holds a
\* route besides the reserved ones, and none while it is empty.
C18_VrfRefBalanced ==
    ~aborted =>
        vrf_ref = IF rt_table_has_routes(rt_table[RT_TABLE_MAIN])
                  THEN 1 ELSE 0

\* ------------------------------------------ commands cached and replayed
\* Commands for interfaces that come and go.
NextReplay ==
    \/ CmdSpeed
    \/ CmdVhostClientCfg
    \/ IfIndexSet
    \/ IfIndexUnset

SpecReplay == Init /\ [][NextReplay]_vars

\* The entries of the log that command cmd made.
LogOf(log, cmd) == SelectSeq(log, LAMBDA e : e.cmd = cmd)

\* What the replay of the cached vector argv writes in the log.
ReplayOfSpeed(argv) ==
    [cmd |-> "speed", ifname |-> argv[3],
     arg |-> cmd_speed_link_speeds(argv)]
ReplayOfVhost(argv) ==
    [cmd |-> "vhost-client", ifname |-> argv[3],
     arg |-> <<argv[4], argv[5]>>]

\* C19: when DP_EVT_IF_INDEX_SET is raised for a name, the command cached
\* for that name is executed once, with the argument vector it was cached
\* with, and leaves the cache; a name with no cached command has nothing
\* executed, so a later event for the same name does not execute it again.
C19_ReplayExactlyOnce ==
    [][(~aborted' /\ trace'.op = "if_index_set") =>
        /\ LogOf(trace'.log, "speed") =
            IF cfg_if_list_lookup(speed_cfg_list, trace'.ifname) = {}
            THEN <<>>
            ELSE <<ReplayOfSpeed(
                    (CHOOSE le \in cfg_if_list_lookup(speed_cfg_list,
                                        trace'.ifname) : TRUE).le_argv)>>
        /\ cfg_if_list_lookup(speed_cfg_list', trace'.ifname) = {}
        /\ LogOf(trace'.log, "vhost-client") =
            IF cfg_if_list_lookup(vhost_cfg_list, trace'.ifname) = {}
            THEN <<>>
            ELSE <<ReplayOfVhost(
                    (CHOOSE le \in cfg_if_list_lookup(vhost_cfg_list,
                                        trace'.ifname) : TRUE).le_argv)>>
        /\ cfg_if_list_lookup(vhost_cfg_list', trace'.ifname) = {}
    ]_vars

\* A cached speed command has just been replayed while another name still
\* waits in the cache.
C19_Witness ==
    /\ ~aborted
    /\ trace.op = "if_index_set"
    /\ Len(LogOf(trace.log, "speed")) = 1
    /\ speed_cfg_list.live
    /\ if_cfg[trace.ifname].link_speeds # {}

\* The slots of the bus that hold the ops.
SlotsOf(ops) == {i \in OpsSlots : dp_ops[i] = ops}

\* C20: the cache of a feature holds one slot of the bus while it exists
\* and none while it does not.
C20_OneSlotPerCache ==
    ~aborted =>
        /\ Cardinality(SlotsOf(speed_event_ops)) =
            IF speed_cfg_list.live THEN 1 ELSE 0
        /\ Cardinality(SlotsOf(vhost_event_ops)) =
            IF vhost_cfg_list.live THEN 1 ELSE 0

\* C21: when DP_EVT_IF_INDEX_UNSET is raised for a name, no command for
\* that name is left in the cache of a feature, and a DP_EVT_IF_INDEX_SET
\* for a name that has no command in the caches executes nothing.
C21_UnsetDiscardsPending ==
    [][/\ (~aborted' /\ trace'.op = "if_index_unset") =>
            /\ cfg_if_list_lookup(speed_cfg_list', trace'.ifname) = {}
            /\ cfg_if_list_lookup(vhost_cfg_list', trace'.ifname) = {}
       /\ (/\ ~aborted' /\ trace'.op = "if_index_set"
           /\ cfg_if_list_lookup(speed_cfg_list, trace'.ifname) = {}
           /\ cfg_if_list_lookup(vhost_cfg_list, trace'.ifname) = {})
          => trace'.log = <<>>
    ]_vars

\* DP_EVT_IF_INDEX_UNSET has just discarded a speed command and a vhost
\* command that waited for the name.
C21_Witness ==
    /\ ~aborted
    /\ trace.op = "if_index_unset"
    /\ \E a, b \in trace.had : a.le_argv[1] = "speed"
                               /\ b.le_argv[1] = "vhost-client"

\* ------------------------------------------- every command that replays
NextCmd ==
    \/ CmdSpeed
    \/ CmdPoe
    \/ CmdBreakout
    \/ CmdVhostClientCfg
    \/ IfIndexSet
    \/ IfIndexUnset

SpecCmd == Init /\ [][NextCmd]_vars

\* The well-formed commands of the features that replay.
ReplayCapable ==
    {a \in SpeedArgvs : cmd_speed_link_speeds_ok(a)}
    \cup {a \in PoeArgvs : Len(a) = 3 \/ a[5] \in {"low", "high", "critical"}}
    \cup {a \in BreakoutArgvs : Len(a) >= 4}
    \cup {a \in VhostArgvs : a[5] \in {"add", "del"}}

\* The cache of the feature of the command holds a command for its name
\* when the step is over.
CachedAfter(argv) ==
    CASE argv[1] = "speed" ->
            cfg_if_list_lookup(speed_cfg_list', argv[3]) # {}
      [] argv[1] = "poe" ->
            cfg_if_list_lookup(poe_cfg_list', argv[3]) # {}
      [] argv[1] = "breakout" ->
            cfg_if_list_lookup(breakout_cfg_list', argv[3]) # {}
      [] argv[1] = "vhost-client" ->
            cfg_if_list_lookup(vhost_cfg_list', argv[3]) # {}

\* C22: a well-formed speed, poe, breakout or vhost-client transport-link
\* command that names an interface that is not there returns 0, and a
\* command for the name is in the cache of the feature afterwards.
C22_MissingInterfaceIsCached ==
    [][(/\ ~aborted'
        /\ trace'.op \in {"cmd_speed", "cmd_poe", "cmd_breakout",
                          "cmd_vhost_client_cfg"}
        /\ trace'.argv \in ReplayCapable
        /\ trace'.argv[3] \notin ifnet)
       => /\ trace'.rc = 0
          /\ CachedAfter(trace'.argv)
    ]_vars

\* ------------------------------------------------ missed netlink replay
NextMissed ==
    \/ MissedAdd
    \/ MissedDel
    \/ MissedReplay

SpecMissed == Init /\ [][NextMissed]_vars

\* The adds kept for the interface.
PendingAdds(ifindex) == {e \in missed_cache : e[1] = ifindex}

\* C23: a replay for an interface adds to missed_replayed the number of
\* objects of the interface that have an add pending, changes no other
\* counter and leaves no add pending for the interface, so that a second
\* replay changes no counter; an add that a delete cancelled is not
\* pending, and a repeated add of one object counts as an update and leaves
\* one add pending.
C23_ReplayCountsPendingAdds ==
    [][/\ trace'.op = "missed_netlink_replay" =>
            /\ missed_stats' = [missed_stats EXCEPT !.missed_replayed =
                    @ + Cardinality(PendingAdds(trace'.ifindex))]
            /\ \A e \in missed_cache' : e[1] # trace'.ifindex
       /\ trace'.op = "missed_nl_del" =>
            <<trace'.ifindex, trace'.obj>> \notin missed_cache'
       /\ (trace'.op = "missed_nl_add"
           /\ <<trace'.ifindex, trace'.obj>> \in missed_cache) =>
            /\ missed_cache' = missed_cache
            /\ missed_stats' = [missed_stats EXCEPT !.missed_update = @ + 1]
    ]_vars

\* A replay has just counted two pending adds, after an update and a
\* cancelled add.
C23_Witness ==
    /\ trace.op = "missed_netlink_replay"
    /\ missed_stats.missed_replayed = 2
    /\ missed_stats.missed_update >= 1
    /\ missed_stats.missed_del >= 1
    /\ missed_stats.missed_add = 3

\* --------------------------------------------------------- the console
NextConsole ==
    \/ ConsoleRequest
    \/ ConsoleCmdMaster
    \/ DpConfigure

SpecConsole == Init /\ [][NextConsole]_vars

\* C24: a show command that follows an answered reset, with nothing
\* configured in between, shows the empty state.
C24_ShowAfterResetIsEmpty ==
    (trace.op = "console_request" /\ trace.line = <<"route">>
        /\ trace.after_reset)
    => trace.frames[2] = {}

\* C25: during the exchange with the master thread the console thread is
\* offline and outside a read-side section, send_console_cmd returns online
\* with the read lock taken again, and after every request the thread is
\* offline with as many unlocks as locks.
C25_RcuBalanced ==
    /\ con_rcu = [online |-> FALSE, nesting |-> 0]
    /\ (trace.op = "console_request" /\ trace.xchg # <<>>) =>
        /\ trace.xchg[1].online = FALSE
        /\ trace.xchg[1].nesting = 0
        /\ trace.xchg[2].online = TRUE
        /\ trace.xchg[2].nesting = 1

\* C26: a console request is answered with two frames, the first OK when
\* the handler of the command has returned 0 and ERROR in every other case,
\* an unknown verb included.
C26_TwoFramesStatus ==
    trace.op = "console_request" =>
        /\ Len(trace.frames) = 2
        /\ trace.frames[1] \in {"OK", "ERROR"}
        /\ trace.frames[1] = "OK" <=> trace.handler = <<0>>

\* ------------------------------------------------------ Ethernet lookup
NextEther ==
    \/ EtherLookup
    \/ PlIfFlags

SpecEther == Init /\ [][NextEther]_vars

\* C27: a packet that enters Ethernet lookup is consumed exactly once: at
\* "finish" the mbuf has been freed or handed off once, at "accept" and at
\* "lookup" it has not been freed, and when the interface the packet
\* resolved to is down the drop is counted on that interface.
C27_ConsumedOnceAndCounted ==
    trace.op = "ether_lookup" =>
        /\ \A i \in DOMAIN trace.rets :
            trace.rets[i].m_free =
                IF trace.rets[i].ret = ETHER_LOOKUP_FINISH THEN 1 ELSE 0
        /\ trace.down \subseteq trace.counted

\* ------------------------------------------------- the index of a group
LpmRules == UNION {rt_table[t] : t \in DOMAIN rt_table}

\* C28 as stated: index 0 is assigned to no group and stored in no rule.
C28_IndexZeroUnused ==
    /\ nh_entry[0] = NULL
    /\ \A r \in LpmRules : r.next_hop # 0

\* C28: index 0 is reserved for the blackhole group that nexthop_tbl_init
\* creates: slot 0 holds that group at all times, the index of a group is the
\* slot that holds it, so that every other group has an index from 1 on, and
\* a rule that stores index 0 refers to the blackhole group.
C28_IndexZeroIsBlackhole ==
    ~aborted =>
        /\ nh_entry[0] \in DOMAIN heap
        /\ heap[nh_entry[0]].siblings = <<next_hop(NULL, 0, {RTF_BLACKHOLE})>>
        /\ heap[nh_entry[0]].proto = RTPROT_UNSPEC
        /\ nextu_blackhole = 0
        /\ \A i \in Slots :
            nh_entry[i] \in DOMAIN heap => heap[nh_entry[i]].index = i

\* The search for a free slot has come round past slot 0, and a rule stores
\* index 0.
C28_Witness ==
    /\ ~aborted
    /\ nh_entry[NEXTHOP_HASH_TBL_SIZE - 1] \in DOMAIN heap
    /\ nh_rover \in 1 .. NEXTHOP_HASH_TBL_SIZE - 2
    /\ \E r \in LpmRules : r.next_hop = 0

\* ------------------------------------------------------- the route mutex
\* C29: rt_insert and rt_delete hold the route mutex from the step that
\* unlinks the neighbours to the step that links them again: between its
\* lock and its unlock the mutex is never released.
C29_MutexHeldAcrossMutation ==
    (~aborted /\ trace.op \in {"rt_insert", "rt_delete"})
    => trace.mutex_rel = 0

\* ------------------------------------------------ the routes in the FAL
\* C30: the calls to the plugin for a prefix fit what the plugin holds:
\* fal_ip4_new_route only for a prefix the hardware holds no route for,
\* fal_ip4_upd_route and fal_ip4_del_route only for one it holds, so that a
\* route created once is deleted at most once.
C30_FalRouteLifecycle ==
    "fal_bad" \in DOMAIN trace => trace.fal_bad = {}

\* ------------------------------------------- readers of the slot array
\* The control thread runs while a read-side section is open as long as
\* fewer than MaxPending groups wait for the section to end.
RcuWriter ==
    /\ Cardinality(rcu_pending) < MaxPending
    /\ \/ RtInsert(SubnetPrefix, {RT_SCOPE_UNIVERSE}, {RTPROT_UNSPEC},
                   ConnectedHops \cup GatewayHops, {"none"}, {0})
       \/ RtDelete(SubnetPrefix, {RT_SCOPE_UNIVERSE})
       \/ NeighAdd
       \/ NeighDel

NextRcu ==
    \/ RcuWriter
    \/ ReaderLock
    \/ ReaderLoad
    \/ ReaderUnlock

SpecRcu == Init /\ [][NextRcu]_vars

\* C31: the group a forwarding thread has loaded from a slot inside a
\* read-side section is not freed before the section ends, and a group that
\* waits for its deferred free is in no slot.
C31_NoFreeUnderReader ==
    ~aborted =>
        /\ rd_ptr # NULL => rd_ptr \in DOMAIN heap
        /\ \A idx \in Slots : nh_entry[idx] \notin rcu_pending

\* The reader holds a group that was handed to call_rcu after the reader had
\* loaded it.
C31_Witness ==
    /\ ~aborted
    /\ rd_ptr # NULL
    /\ rd_ptr \in rcu_pending

\* The active rules of every table whose recorded state is s.
hw_rules(s) ==
    {<<t, r>> \in UNION {{t} \X rt_table[t] : t \in DOMAIN rt_table} :
        lpm_is_active(rt_table[t], r) /\ r.state = s}

\* C32: every bucket of route_hw_stats is the number of active rules
\* recorded in that state, a shadowed rule is recorded as NOT_NEEDED, and no
\* bucket is below zero.
C32_HwStatsCountActiveRules ==
    ~aborted =>
        /\ \A s \in PdStates :
            /\ route_hw_stats[s] = Cardinality(hw_rules(s))
            /\ route_hw_stats[s] >= 0
        /\ \A t \in DOMAIN rt_table : \A r \in rt_table[t] :
            ~lpm_is_active(rt_table[t], r) => r.state = PD_OBJ_STATE_NOT_NEEDED

\* ----------------------------------- neighbour updates of failed groups
\* Gateway routes whose group the plugin may refuse, and the neighbour of
\* the gateway coming and going.
NextHwView ==
    \/ RtInsert(SubnetPrefix, {RT_SCOPE_UNIVERSE}, {RTPROT_UNSPEC},
                GatewayHops, {"none"}, {0, -EOPNOTSUPP})
    \/ RtDelete(SubnetPrefix, {RT_SCOPE_UNIVERSE})
    \/ NeighAdd
    \/ NeighDel

SpecHwView == Init /\ [][NextHwView]_vars

\* C33: the group that route_nh_replace puts in a slot has the pd_state of
\* the group it replaces.
C33_ReplaceKeepsPdState ==
    (~aborted /\ "swaps" \in DOMAIN trace) =>
        \A s \in trace.swaps : s.new.pd_state = s.old.pd_state

\* C34: when a sibling of the group is not flagged DEAD, nexthop_select
\* returns a sibling that is not flagged DEAD, whatever ecmp_max_path is.
C34_SelectFindsLivePath ==
    (/\ ~aborted
     /\ trace.op = "nexthop_select"
     /\ nh_entry[trace.idx] # NULL
     /\ \E i \in 1 .. Len(heap[nh_entry[trace.idx]].siblings) :
            RTF_DEAD \notin heap[nh_entry[trace.idx]].siblings[i].flags)
    => /\ trace.path # 0
       /\ RTF_DEAD \notin
            heap[nh_entry[trace.idx]].siblings[trace.path].flags

\* ----------------------------------------------- the vhost event queue
VhostHandler == VhostWake \/ VhostTake \/ VhostProcess \/ VhostFree

NextVhost ==
    \/ VhostSetUpdateEvent
    \/ \E t \in VhostThreads : VhostSetFd(t)
    \/ VhostHandler

\* The master thread keeps polling its event fds, and a thread that has
\* queued an event goes on to set the fd.
SpecVhost ==
    /\ Init
    /\ [][NextVhost]_vars
    /\ WF_vars(VhostHandler)
    /\ \A t \in VhostThreads : WF_vars(VhostSetFd(t))

NextNpf ==
    \/ NpfStateInit
    \/ NpfStateInspect
    \/ NpfStateSetClosed
    \/ NpfStateDestroy
    \/ NpfSetIcmpStrict

SpecNpf == Init /\ [][NextNpf]_vars

\* C36: a session on which npf_state_set_closed_state has run stays in
\* state CLOSED, whatever packets are inspected on it, until it is
\* destroyed.
C36_ClosedIsAbsorbing ==
    ~aborted =>
        \A id \in NpfSessions :
            (npf_sess[id].live /\ npf_sess[id].closed) =>
                npf_sess[id].nst_state =
                    (IF npf_sess[id].proto = NPF_PROTO_IDX_TCP
                     THEN NPF_TCPS_CLOSED ELSE NPF_ANY_SESSION_CLOSED)

\* The live sessions of a protocol that are in a state.
NpfSessionsIn(cell) ==
    {id \in NpfSessions : /\ npf_sess[id].live
                          /\ npf_sess[id].proto = cell[1]
                          /\ npf_sess[id].nst_state = cell[2]}

NextNpfStats ==
    \/ NpfStateInit
    \/ NpfStateInspect
    \/ NpfStateSetClosed
    \/ NpfStateDestroy
    \/ NpfStateStatsJson

SpecNpfStats == Init /\ [][NextNpfStats]_vars

\* C38: npf_state_stats_json leaves every counter of every core as it was.
C38_StatsJsonIsPureRead ==
    (~aborted /\ trace.op = "npf_state_stats_json") =>
        npf_stats = trace.before

\* The walks of the packets that can arrive on the port, with the
\* interfaces and counters as they are.
EtherWalks ==
    {ether_lookup_walk(Pl, pkt) :
        pkt \in {q \in Packets : q.rx_vlan \/ q.vid = 0}}

\* C39: the walk of every packet returns the lookup successor at most once
\* and then ends with accept or finish.
C39_LookupReentersOnce ==
    \A w \in EtherWalks :
        /\ Len(w.rets) <= 2
        /\ w.rets[Len(w.rets)].ret \in {ETHER_LOOKUP_ACCEPT,
                                         ETHER_LOOKUP_FINISH}
        /\ \A i \in 1 .. Len(w.rets) - 1 : w.rets[i].ret = ETHER_LOOKUP_LOOKUP

\* A packet has been through the node twice: its vlan tag led to a vlan
\* interface, and the second pass accepted it.
C39_Witness ==
    /\ trace.op = "ether_lookup"
    /\ Len(trace.rets) = 2
    /\ trace.rets[1].ret = ETHER_LOOKUP_LOOKUP
    /\ trace.rets[2].ret = ETHER_LOOKUP_ACCEPT

\* The groups filed in the interning hash.
HashedGroups == {n.ptr : n \in nexthop_hash}

\* C40: between operations, nh_tbl.in_use is the number of slots that hold
\* a group, and a group is filed in the interning hash exactly when it is
\* the group of the slot at its own index.
C40_InUseAndHashMatchSlots ==
    /\ nh_in_use = Cardinality({idx \in Slots : nh_entry[idx] # NULL})
    /\ \A p \in (DOMAIN heap \cup HashedGroups) \ rcu_pending :
        p \in HashedGroups
            <=> (p \in DOMAIN heap /\ nh_entry[heap[p].index] = p)

====
